---------------------------- MODULE Spec2Model ----------------------------
(***************************************************************************)
(* Semi-dynamic correction engine of chiriin (chiriin/semidynamic.py).     *)
(*                                                                         *)
(* Python Decimal values are modelled as exact rationals [n, d] in lowest  *)
(* terms with d > 0.  Every input of the model is a finite decimal, and    *)
(* the 28-digit rounding of the Decimal context is not modelled: a         *)
(* quotient is its exact value.  A Python float produced by float(...) is  *)
(* the tagged value [float |-> r], "the binary64 nearest to r".            *)
(* Mesh codes are Python strings of 8 digits, modelled as tuples of 8      *)
(* digits; the table is keyed by int(mesh_code).                           *)
(***************************************************************************)
EXTENDS Integers, Sequences, FiniteSets, TLC

VARIABLES
    lon,                \* self.lon: a Decimal, or a list of Decimal
    lat,                \* self.lat
    is_iterable,        \* self._is_iterable
    param_df,           \* self._param_df: int mesh code -> row
    pc,                 \* position of the caller in correction_2d / mesh_design
    return_to_original, \* argument of the running correction_2d call
    i,                  \* 1-based position of the batch loop (line 290)
    previous_mesh_code, \* local of correction_2d (line 289)
    delta,              \* local of correction_2d (lines 283, 293, 296)
    lst,                \* local of correction_2d (line 288)
    result,             \* value returned by the last call
    raised,             \* exception that left the last call, or None
    calc_calls,         \* batch positions at which _calc_correction_2d_delta ran
    probe,              \* arguments of the last public call of a method
    altitude,           \* self.altitude
    datetime_,          \* self.datetime
    files,              \* SemidynamicCorrectionFiles.files: the paths glob found
    disk,               \* the bytes of every file of the data directory
    tried,              \* encodings semidynamic_correction_file has passed to read_file
    opened,             \* the open() calls made so far (config.py line 128)
    retries,            \* tile.py: retries; web.py: completed turns of the retry loop
    response,           \* what the last HTTP request brought back
    idxs,               \* web.py: the indices of the points of the call
    tasks,              \* web.py: the coroutines waiting in the list tasks
    results,            \* web.py: the dictionaries gathered so far
    requests,           \* HTTP requests sent since the last time.sleep(time_sleep)
    failures            \* requests that ended with ErrMsg or a client error

\* what the loader of the parameter file works on
loadVars == <<altitude, datetime_, files, disk, tried, opened>>

\* what the downloads of tile.py and web.py work on
webVars == <<retries, response, idxs, tasks, results, requests, failures>>

vars == <<lon, lat, is_iterable, param_df, pc, return_to_original, i,
          previous_mesh_code, delta, lst, result, raised, calc_calls, probe,
          altitude, datetime_, files, disk, tried, opened,
          retries, response, idxs, tasks, results, requests, failures>>

-----------------------------------------------------------------------------
(* Evaluation order.  With(e, F) is F applied to the value of e: Python     *)
(* evaluates an expression once and binds the result to a name.            *)

With(e, F(_)) == CHOOSE r \in {F(v) : v \in {e}} : TRUE

With2(e1, e2, F(_, _)) == CHOOSE r \in {F(v1, v2) : v1 \in {e1}, v2 \in {e2}} : TRUE

-----------------------------------------------------------------------------
(* Exact decimal arithmetic.                                               *)

Abs(x) == IF x < 0 THEN -x ELSE x

RECURSIVE GCD(_, _)
GCD(a, b) == With2(a, b, LAMBDA x, y : IF y = 0 THEN x ELSE GCD(y, x % y))

\* Decimal(...) of the value n/d
Rat(n, d) ==
    With2(n, d, LAMBDA nv, dv :
        With(GCD(Abs(nv), Abs(dv)), LAMBDA g :
            IF dv < 0
            THEN [n |-> (-nv) \div g, d |-> (-dv) \div g]
            ELSE [n |-> nv \div g, d |-> dv \div g]))

Int2Rat(k) == [n |-> k, d |-> 1]

RNeg(a) == With(a, LAMBDA x : [n |-> -x.n, d |-> x.d])

RAdd(a, b) ==
    With2(a, b, LAMBDA x, y :
        With(GCD(x.d, y.d), LAMBDA g :
            Rat(x.n * (y.d \div g) + y.n * (x.d \div g), (x.d \div g) * y.d)))

RSub(a, b) == RAdd(a, RNeg(b))

RMul(a, b) ==
    With2(a, b, LAMBDA x, y :
        With2(GCD(Abs(x.n), y.d), GCD(Abs(y.n), x.d), LAMBDA g1, g2 :
            [n |-> (x.n \div g1) * (y.n \div g2), d |-> (x.d \div g2) * (y.d \div g1)]))

RDiv(a, b) == With(b, LAMBDA y : RMul(a, Rat(y.d, y.n)))

RLe(a, b) == With2(a, b, LAMBDA x, y : x.n * y.d <= y.n * x.d)

RLt(a, b) == With2(a, b, LAMBDA x, y : x.n * y.d < y.n * x.d)

\* int(x): truncation toward zero
RInt(a) == With(a, LAMBDA x : IF x.n >= 0 THEN x.n \div x.d ELSE -((-x.n) \div x.d))

\* floor of a rational
RFloor(a) == With(a, LAMBDA x : x.n \div x.d)

\* round(x, 1) of a Decimal: quantize to one decimal place, ROUND_HALF_EVEN
RRound1(a) ==
    With(RMul(a, Int2Rat(10)), LAMBDA t :
        With2(t.n \div t.d, t.n % t.d, LAMBDA f, r :
            IF 2 * r > t.d \/ (2 * r = t.d /\ f % 2 = 1)
            THEN Rat(f + 1, 10)
            ELSE Rat(f, 10)))

\* float(x): the binary64 nearest to x
Float(a) == [float |-> a]

-----------------------------------------------------------------------------
(* Values a call can produce besides its normal result.                    *)

None == <<>>                          \* Python None (no mesh code is empty)

Raise(e, arg) == [exception |-> e, arg |-> arg]

IsRaise(v) == "exception" \in DOMAIN v

\* mesh_design's `return False` (line 127)
MeshDesignFalse == [returned |-> FALSE]

\* the dict {"lon": False, "lat": False} of line 237
FalseDict == [dict |-> TRUE, lon |-> FALSE, lat |-> FALSE]

\* a local variable of a running call that no statement has assigned yet
Unbound == [unbound |-> TRUE]

-----------------------------------------------------------------------------
(* chiriin.mesh.MeshCode: the standard regional mesh code of a position.   *)
(* First level: 40' of latitude by 1 degree of longitude; second level:    *)
(* 5' by 7.5'; third level (standard mesh): 30" by 45".                      *)

FirstLat(lat_) == RFloor(RMul(lat_, Rat(3, 2)))

FirstLon(lon_) == RFloor(lon_) - 100

\* MeshCode(lon, lat) fails outside the grid that two-digit first-level
\* codes can address
MeshCodeRaises(lon_, lat_) ==
    \/ FirstLat(lat_) \notin 0..99
    \/ FirstLon(lon_) \notin 0..99

\* MeshCode(lon, lat).standard_mesh_code, a string of 8 digits
standard_mesh_code(lon_, lat_) ==
    With2(FirstLat(lat_), FirstLon(lon_), LAMBDA p, u :
    With2(RSub(RMul(lat_, Int2Rat(3600)), Int2Rat(2400 * p)),
          RSub(RMul(lon_, Int2Rat(3600)), Int2Rat(3600 * (u + 100))), LAMBDA a, b :
    With2(RFloor(RDiv(a, Int2Rat(300))),
          RFloor(RDiv(b, Int2Rat(450))), LAMBDA q, v :
    With2(RFloor(RDiv(RSub(a, Int2Rat(300 * q)), Int2Rat(30))),
          RFloor(RDiv(RSub(b, Int2Rat(450 * v)), Int2Rat(45))), LAMBDA r, w :
        <<p \div 10, p % 10, u \div 10, u % 10, q, v, r, w>>))))

MeshCode(lon_, lat_) ==
    With2(lon_, lat_, LAMBDA lo, la :
        IF MeshCodeRaises(lo, la)
        THEN Raise("MeshCodeError", <<lo, la>>)
        ELSE [standard_mesh_code |-> standard_mesh_code(lo, la)])

\* int(mesh_code) of a string of 8 digits
ToInt(c) ==
    With(c, LAMBDA s :
        s[1] * 10000000 + s[2] * 1000000 + s[3] * 100000 + s[4] * 10000
        + s[5] * 1000 + s[6] * 100 + s[7] * 10 + s[8])

-----------------------------------------------------------------------------
(* SemiDynamic.mesh_design and SemiDynamic._adjust_mesh_code               *)

lon_param == 225

lat_param == 150

MeshDesign(name, lon_, lat_, code) ==
    [name |-> name, lon |-> lon_, lat |-> lat_, standard_mesh_code |-> code]

\* _adjust_mesh_code with the two offsets exchanged
adjust_mesh_code_swapped(lower_left_sec_lon, lower_left_sec_lat, dlon, dlat, name) ==
    With2(lower_left_sec_lon + dlat, lower_left_sec_lat + dlon, LAMBDA sec_lon, sec_lat :
    With(MeshCode(Rat(sec_lon, 3600), Rat(sec_lat, 3600)), LAMBDA mesh_code :
        IF IsRaise(mesh_code) THEN mesh_code
        ELSE MeshDesign(name, sec_lon, sec_lat, mesh_code.standard_mesh_code)))

\* lines 160-168; sec / 3600 is a float division of two ints
adjust_mesh_code(lower_left_sec_lon, lower_left_sec_lat, dlon, dlat, name) ==
    With2(lower_left_sec_lon + dlon, lower_left_sec_lat + dlat, LAMBDA sec_lon, sec_lat :
    With(MeshCode(Rat(sec_lon, 3600), Rat(sec_lat, 3600)), LAMBDA mesh_code :
        IF IsRaise(mesh_code) THEN mesh_code
        ELSE MeshDesign(name, sec_lon, sec_lat, mesh_code.standard_mesh_code)))

\* line 96 / 97: round(lon * 3600, 1)
rounded_sec(deg) == RRound1(RMul(deg, Int2Rat(3600)))

\* lines 98-101: int(sec / param) * param
lower_left_sec(deg, param) == RInt(RDiv(rounded_sec(deg), Int2Rat(param))) * param

mesh_design(lon_, lat_) ==
    With2(lower_left_sec(lon_, lon_param), lower_left_sec(lat_, lat_param),
          LAMBDA lower_left_sec_lon, lower_left_sec_lat :
    With(MeshCode(Rat(lower_left_sec_lon, 3600), Rat(lower_left_sec_lat, 3600)),
         LAMBDA lower_left_mesh_code :
    IF IsRaise(lower_left_mesh_code) THEN MeshDesignFalse ELSE
    With(adjust_mesh_code(lower_left_sec_lon, lower_left_sec_lat,
                          lon_param, 0, "lower_right"),
         LAMBDA lower_right_design :
    IF IsRaise(lower_right_design) THEN MeshDesignFalse ELSE
    With(adjust_mesh_code(lower_left_sec_lon, lower_left_sec_lat,
                          0, lat_param, "upper_left"),
         LAMBDA upper_left_design :
    IF IsRaise(upper_left_design) THEN MeshDesignFalse ELSE
    With(adjust_mesh_code(lower_left_sec_lon, lower_left_sec_lat,
                          lon_param, lat_param, "upper_right"),
         LAMBDA upper_right_design :
    IF IsRaise(upper_right_design) THEN MeshDesignFalse ELSE
        [lower_left |-> MeshDesign("lower_left", lower_left_sec_lon,
                                   lower_left_sec_lat,
                                   lower_left_mesh_code.standard_mesh_code),
         lower_right |-> lower_right_design,
         upper_left |-> upper_left_design,
         upper_right |-> upper_right_design])))))

-----------------------------------------------------------------------------
(* The parameter table (self._param_df) and SemiDynamic._get_delta.        *)
(* A row holds the file's decimal tokens; Decimal(f"{row[...]}") yields    *)
(* the value of the token.                                                 *)

Delta(dx, dy, dz) == [delta_x |-> dx, delta_y |-> dy, delta_z |-> dz]

\* a mesh code passed as a Python int (a str is the tuple of its digits and
\* a float is the tagged value of Float)
PyIntValue(k) == [int |-> k]

\* int(mesh_code) of line 208: of a str of digits, of an int, and of a
\* float, which int() truncates
PyInt(mesh_code) ==
    With(mesh_code, LAMBDA v :
        IF Cardinality(DOMAIN v) > 1 THEN ToInt(v)
        ELSE IF "int" \in DOMAIN v THEN v.int
        ELSE RInt(v.float))

\* a lookup that answers an absent code with the zero vector
get_delta_default(mesh_code) ==
    With(PyInt(mesh_code), LAMBDA key :
        IF key \in DOMAIN param_df
        THEN Delta(param_df[key].delta_x, param_df[key].delta_y, param_df[key].delta_z)
        ELSE Delta(Int2Rat(0), Int2Rat(0), Int2Rat(0)))

\* lines 207-215; None has no attribute loc, and no handler of line 209
\* catches that
get_delta(mesh_code) ==
    With(PyInt(mesh_code), LAMBDA key :
        IF param_df = None THEN Raise("AttributeError", "loc")
        ELSE IF key \in DOMAIN param_df
        THEN Delta(param_df[key].delta_x, param_df[key].delta_y, param_df[key].delta_z)
        ELSE Raise("KeyError", mesh_code))

\* lines 181-190: the four lookups in order; the first failing one raises
get_delta_sets(mesh_designs) ==
    With(get_delta(mesh_designs.lower_left.standard_mesh_code),
         LAMBDA lower_left_delta :
    IF IsRaise(lower_left_delta) THEN lower_left_delta ELSE
    With(get_delta(mesh_designs.lower_right.standard_mesh_code),
         LAMBDA lower_right_delta :
    IF IsRaise(lower_right_delta) THEN lower_right_delta ELSE
    With(get_delta(mesh_designs.upper_left.standard_mesh_code),
         LAMBDA upper_left_delta :
    IF IsRaise(upper_left_delta) THEN upper_left_delta ELSE
    With(get_delta(mesh_designs.upper_right.standard_mesh_code),
         LAMBDA upper_right_delta :
    IF IsRaise(upper_right_delta) THEN upper_right_delta ELSE
        [lower_left |-> lower_left_delta,
         lower_right |-> lower_right_delta,
         upper_left |-> upper_left_delta,
         upper_right |-> upper_right_delta]))))

-----------------------------------------------------------------------------
(* SemiDynamic._calc_correction_2d_delta                                   *)

One == Int2Rat(1)

\* line 252
x_norm(lon_, mesh_designs) ==
    RDiv(RSub(RMul(lon_, Int2Rat(3600)), Int2Rat(mesh_designs.lower_left.lon)),
         Int2Rat(mesh_designs.lower_right.lon - mesh_designs.lower_left.lon))

\* line 253
y_norm(lat_, mesh_designs) ==
    RDiv(RSub(RMul(lat_, Int2Rat(3600)), Int2Rat(mesh_designs.lower_left.lat)),
         Int2Rat(mesh_designs.upper_left.lat - mesh_designs.lower_left.lat))

\* the textbook bilinear interpolant: x weights lower_right against lower_left,
\* y weights upper_left against lower_left
bilinear(x, y, lower_left, lower_right, upper_left, upper_right) ==
    RAdd(RAdd(RAdd(RMul(RMul(RSub(One, y), RSub(One, x)), lower_left),
                   RMul(RMul(RSub(One, y), x), lower_right)),
              RMul(RMul(y, x), upper_right)),
         RMul(RMul(y, RSub(One, x)), upper_left))

\* lines 254-259 and 260-265: the weighted sum over one component of the
\* four corner vectors
delta_p(x, y, lower_left, lower_right, upper_left, upper_right) ==
    RAdd(RAdd(RAdd(RMul(RMul(RSub(One, y), RSub(One, x)), lower_left),
                   RMul(RMul(y, RSub(One, x)), lower_right)),
              RMul(RMul(y, x), upper_right)),
         RMul(RMul(RSub(One, y), x), upper_left))

\* the direction flag ignored
apply_direction_ignored(d, rto) == d

\* lines 267-269
apply_direction(d, rto) == IF rto THEN RMul(d, Int2Rat(-1)) ELSE d

calc_correction_2d_delta(lon_, lat_, rto) ==
    With(mesh_design(lon_, lat_), LAMBDA mesh_designs :
    IF mesh_designs = MeshDesignFalse THEN FalseDict ELSE
    With(get_delta_sets(mesh_designs), LAMBDA delta_sets :
    IF IsRaise(delta_sets) THEN delta_sets ELSE
    With2(x_norm(lon_, mesh_designs), y_norm(lat_, mesh_designs), LAMBDA x, y :
        Delta(apply_direction(delta_p(x, y, delta_sets.lower_left.delta_x,
                                      delta_sets.lower_right.delta_x,
                                      delta_sets.upper_left.delta_x,
                                      delta_sets.upper_right.delta_x), rto),
              apply_direction(delta_p(x, y, delta_sets.lower_left.delta_y,
                                      delta_sets.lower_right.delta_y,
                                      delta_sets.upper_left.delta_y,
                                      delta_sets.upper_right.delta_y), rto),
              Int2Rat(0)))))

-----------------------------------------------------------------------------
(* Inputs of the model.                                                    *)

MaxBatch == 3

Pt(lon_, lat_) == [lon |-> lon_, lat |-> lat_]

\* (140.45, 40.6) and (140.455, 40.6) share one standard mesh; (140.46, 40.61)
\* lies in another standard mesh of the same 225" x 150" cell; (140.5125, 40.6)
\* lies in the next cell; (141.45, 40.6) has no rows in the table;
\* (199.99, 40.6) has its right-hand corners beyond the addressable grid and
\* (99.99, 40.6) lies itself outside it
PointSet ==
    { Pt(Rat(14045, 100), Rat(406, 10)),
      Pt(Rat(140455, 1000), Rat(406, 10)),
      Pt(Rat(14046, 100), Rat(4061, 100)),
      Pt(Rat(1405125, 10000), Rat(406, 10)),
      Pt(Rat(14145, 100), Rat(406, 10)),
      Pt(Rat(19999, 100), Rat(406, 10)),
      Pt(Rat(9999, 100), Rat(406, 10)) }

\* the table's key of the grid node (225" * m, 150" * n)
NodeCode(m, n) ==
    ToInt(standard_mesh_code(Rat(m * lon_param, 3600), Rat(n * lat_param, 3600)))

Nodes == (2246..2249) \X (973..976)

NodeOf(c, nodes) == CHOOSE mn \in nodes : NodeCode(mn[1], mn[2]) = c

\* two parameter tables: rows for every node of a block of 3 x 3 cells, and
\* the same block with other values and without the node (2249, 975)
TableA ==
    [c \in {NodeCode(mn[1], mn[2]) : mn \in Nodes} |->
        LET mn == NodeOf(c, Nodes)
        IN  Delta(Int2Rat((mn[1] - 2246) + 2 * (mn[2] - 973)),
                  Int2Rat(3 * (mn[1] - 2246) - (mn[2] - 973)),
                  Int2Rat(0))]

TableB ==
    [c \in {NodeCode(mn[1], mn[2]) : mn \in Nodes \ {<<2249, 975>>}} |->
        LET mn == NodeOf(c, Nodes)
        IN  Delta(Int2Rat(2 * (mn[1] - 2246) - 3 * (mn[2] - 973)),
                  Int2Rat((mn[2] - 973) - (mn[1] - 2246)),
                  Int2Rat(1))]

-----------------------------------------------------------------------------
(* SemiDynamic.__init__ and SemiDynamic.correction_2d                      *)

XY(x, y) == [x |-> x, y |-> y]

\* the delta added without the conversion from arc-seconds to degrees
corrected_in_seconds(lon_, lat_, d) ==
    XY(Float(RAdd(lon_, d.delta_x)), Float(RAdd(lat_, d.delta_y)))

\* lines 284-286 and 298-300
corrected(lon_, lat_, d) ==
    XY(Float(RAdd(lon_, RDiv(d.delta_x, Int2Rat(3600)))),
       Float(RAdd(lat_, RDiv(d.delta_y, Int2Rat(3600)))))

\* the delta recomputed at every point
needs_recalc_always(mesh_code, previous) == TRUE

\* the delta recomputed only against a previous point's mesh code
needs_recalc_after_first(mesh_code, previous) ==
    \/ mesh_code = None
    \/ previous /= None /\ mesh_code /= previous

\* the delta recomputed only while no mesh code has been kept
needs_recalc_first_only(mesh_code, previous) ==
    \/ mesh_code = None
    \/ previous = None

\* lines 292-297: the two branches that recompute the delta
needs_recalc(mesh_code, previous) ==
    \/ mesh_code = None
    \/ mesh_code /= previous

Init ==
    /\ \/ \E p \in PointSet :
            /\ lon = p.lon
            /\ lat = p.lat
            /\ is_iterable = FALSE
       \/ \E n \in 0..MaxBatch : \E pts \in [1..n -> PointSet] :
            /\ lon = [k \in 1..n |-> pts[k].lon]
            /\ lat = [k \in 1..n |-> pts[k].lat]
            /\ is_iterable = TRUE
    /\ param_df \in {TableA, TableB}
    /\ pc = "ready"
    /\ return_to_original = Unbound
    /\ i = 0
    /\ previous_mesh_code = Unbound
    /\ delta = Unbound
    /\ lst = Unbound
    /\ result = Unbound
    /\ raised = None
    /\ calc_calls = <<>>
    /\ probe = None
    /\ altitude = None
    /\ datetime_ = None
    /\ files = <<>>
    /\ disk = <<>>
    /\ tried = <<>>
    /\ opened = <<>>
    /\ retries = 0 /\ response = None /\ idxs = <<>> /\ tasks = <<>>
    /\ results = <<>> /\ requests = 0 /\ failures = 0

\* lines 282-286: correction_2d of a single point
Correction2dSingle(rto) ==
    /\ pc = "ready"
    /\ ~is_iterable
    /\ return_to_original' = rto
    /\ LET d == calc_correction_2d_delta(lon, lat, rto)
       IN  IF IsRaise(d)
           THEN /\ raised' = d
                /\ pc' = "raised"
                /\ UNCHANGED <<delta, result>>
           ELSE IF d = FalseDict
           THEN /\ raised' = Raise("AttributeError", "delta_x")
                /\ pc' = "raised"
                /\ delta' = d
                /\ UNCHANGED result
           ELSE /\ delta' = d
                /\ result' = corrected(lon, lat, d)
                /\ pc' = "returned"
                /\ UNCHANGED raised
    /\ calc_calls' = <<1>>
    /\ UNCHANGED <<lon, lat, is_iterable, param_df, i, previous_mesh_code, lst, probe>>
    /\ UNCHANGED loadVars
    /\ UNCHANGED webVars

\* lines 288-289: correction_2d of a batch enters its loop
Correction2dBegin(rto) ==
    /\ pc = "ready"
    /\ is_iterable
    /\ return_to_original' = rto
    /\ lst' = <<>>
    /\ previous_mesh_code' = None
    /\ i' = 1
    /\ pc' = "loop"
    /\ UNCHANGED <<lon, lat, is_iterable, param_df, delta, result, raised,
                   calc_calls, probe>>
    /\ UNCHANGED loadVars
    /\ UNCHANGED webVars

\* lines 290-300: one iteration of the loop
Correction2dIter ==
    /\ pc = "loop"
    /\ i <= Len(lon)
    /\ i <= Len(lat)
    /\ LET mc == MeshCode(lon[i], lat[i])
           mesh_code == mc.standard_mesh_code
           recalc == needs_recalc(mesh_code, previous_mesh_code)
           d == IF recalc
                THEN calc_correction_2d_delta(lon[i], lat[i], return_to_original)
                ELSE delta
       IN  IF IsRaise(mc)
           THEN /\ raised' = mc
                /\ pc' = "raised"
                /\ UNCHANGED <<delta, previous_mesh_code, lst, i, calc_calls>>
           ELSE /\ calc_calls' = IF recalc THEN Append(calc_calls, i) ELSE calc_calls
                /\ IF IsRaise(d)
                   THEN /\ raised' = d
                        /\ pc' = "raised"
                        /\ UNCHANGED <<delta, previous_mesh_code, lst, i>>
                   ELSE /\ delta' = d
                        /\ previous_mesh_code' =
                               IF recalc THEN mesh_code ELSE previous_mesh_code
                        /\ IF d = Unbound
                           THEN /\ raised' = Raise("UnboundLocalError", "delta")
                                /\ pc' = "raised"
                                /\ UNCHANGED <<lst, i>>
                           ELSE IF d = FalseDict
                           THEN /\ raised' = Raise("AttributeError", "delta_x")
                                /\ pc' = "raised"
                                /\ UNCHANGED <<lst, i>>
                           ELSE /\ lst' = Append(lst, corrected(lon[i], lat[i], d))
                                /\ i' = i + 1
                                /\ UNCHANGED <<raised, pc>>
    /\ UNCHANGED <<lon, lat, is_iterable, param_df, return_to_original, result, probe>>
    /\ UNCHANGED loadVars
    /\ UNCHANGED webVars

\* line 301
Correction2dReturn ==
    /\ pc = "loop"
    /\ i > Len(lon)
    /\ i > Len(lat)
    /\ result' = lst
    /\ pc' = "returned"
    /\ UNCHANGED <<lon, lat, is_iterable, param_df, return_to_original, i,
                   previous_mesh_code, delta, lst, raised, calc_calls, probe>>
    /\ UNCHANGED loadVars
    /\ UNCHANGED webVars

\* line 290: zip(..., strict=True) finds one of the lists longer
Correction2dZipFail ==
    /\ pc = "loop"
    /\ (i > Len(lon)) /= (i > Len(lat))
    /\ raised' = Raise("ValueError", "zip")
    /\ pc' = "raised"
    /\ UNCHANGED <<lon, lat, is_iterable, param_df, return_to_original, i,
                   previous_mesh_code, delta, lst, result, calc_calls, probe>>
    /\ UNCHANGED loadVars
    /\ UNCHANGED webVars

\* the lists of Init have one length, so the ValueError of zip has no
\* behaviour here
Next ==
    \/ \E rto \in BOOLEAN : Correction2dSingle(rto)
    \/ \E rto \in BOOLEAN : Correction2dBegin(rto)
    \/ Correction2dIter
    \/ Correction2dReturn

Spec == Init /\ [][Next]_vars

-----------------------------------------------------------------------------
(* Public calls of mesh_design(lon, lat) on a constructed object.          *)

\* the first point of test_mesh_design_from_semidynamic
Fixture1 == Pt(Rat(140463488, 1000000), Rat(40608410, 1000000))

MeshDesignCall(p) ==
    /\ pc = "ready"
    /\ probe = None
    /\ probe' = p
    /\ result' = mesh_design(p.lon, p.lat)
    /\ UNCHANGED <<lon, lat, is_iterable, param_df, pc, return_to_original, i,
                   previous_mesh_code, delta, lst, raised, calc_calls>>
    /\ UNCHANGED loadVars
    /\ UNCHANGED webVars

\* the arguments: the two points of test_mesh_design_from_semidynamic,
\* points on a node and on the edges of a cell, and points within 0.05" below
\* a cell boundary in longitude, in latitude and in both
NextDesign ==
    \E p \in PointSet \cup
            { Fixture1,
              Pt(Rat(141344604, 1000000), Rat(43063119, 1000000)),
              Pt(Rat(1405, 10), Rat(40625, 1000)),
              Pt(Rat(1405, 10), Rat(406, 10)),
              Pt(Rat(14045, 100), Rat(40625, 1000)),
              Pt(Rat(14049999, 100000), Rat(406, 10)),
              Pt(Rat(14045, 100), Rat(4062499, 100000)),
              Pt(Rat(14049999, 100000), Rat(4062499, 100000)) } :
        MeshDesignCall(p)

SpecDesign == Init /\ [][NextDesign]_vars

-----------------------------------------------------------------------------
(* Properties.                                                             *)

Last(q) == q[Len(q)]

\* a delta is held and the call that produced it was the last one made
HasDelta ==
    /\ pc \in {"loop", "returned"}
    /\ raised = None
    /\ calc_calls /= <<>>

\* the point the held delta was computed for
CalcPoint ==
    IF is_iterable THEN Pt(lon[Last(calc_calls)], lat[Last(calc_calls)])
    ELSE Pt(lon, lat)

Corners == mesh_design(CalcPoint.lon, CalcPoint.lat)

\* the table vector of a corner
Vec(corner) == param_df[ToInt(corner.standard_mesh_code)]

\* the held delta before the direction sign
Unsigned(d) == IF return_to_original THEN RNeg(d) ELSE d

LonSec == RMul(CalcPoint.lon, Int2Rat(3600))

LatSec == RMul(CalcPoint.lat, Int2Rat(3600))

\* the claim's x_norm and y_norm
XFrac ==
    RDiv(RSub(LonSec, Int2Rat(Corners.lower_left.lon)),
         Int2Rat(Corners.lower_right.lon - Corners.lower_left.lon))

YFrac ==
    RDiv(RSub(LatSec, Int2Rat(Corners.lower_left.lat)),
         Int2Rat(Corners.upper_left.lat - Corners.lower_left.lat))

\* (1-y)(1-x)*ll + y(1-x)*lr + y*x*ur + (1-y)*x*ul
ClaimedSum(x, y, ll, lr, ul, ur) ==
    LET w_ll == RMul(RSub(One, y), RSub(One, x))
        w_lr == RMul(y, RSub(One, x))
        w_ur == RMul(y, x)
        w_ul == RMul(RSub(One, y), x)
    IN  RAdd(RMul(w_ll, ll), RAdd(RMul(w_lr, lr), RAdd(RMul(w_ur, ur), RMul(w_ul, ul))))

\* C1: before the direction sign, the delta returned by
\* _calc_correction_2d_delta is (1-y)(1-x)*ll + y(1-x)*lr + y*x*ur + (1-y)*x*ul
\* in each of dx and dy, with x = (lon*3600 - ll.lon)/(lr.lon - ll.lon) and
\* y = (lat*3600 - ll.lat)/(ul.lat - ll.lat) over the corners of mesh_design.
C1_DeltaFormula ==
    HasDelta =>
        /\ Unsigned(delta.delta_x) =
               ClaimedSum(XFrac, YFrac, Vec(Corners.lower_left).delta_x,
                          Vec(Corners.lower_right).delta_x,
                          Vec(Corners.upper_left).delta_x,
                          Vec(Corners.upper_right).delta_x)
        /\ Unsigned(delta.delta_y) =
               ClaimedSum(XFrac, YFrac, Vec(Corners.lower_left).delta_y,
                          Vec(Corners.lower_right).delta_y,
                          Vec(Corners.upper_left).delta_y,
                          Vec(Corners.upper_right).delta_y)

\* a delta computed strictly inside a cell, off its diagonal, from four
\* corner vectors that differ
C1_Witness ==
    /\ HasDelta
    /\ RLt(Int2Rat(0), XFrac) /\ RLt(XFrac, YFrac) /\ RLt(YFrac, One)
    /\ Vec(Corners.lower_right).delta_x /= Vec(Corners.upper_left).delta_x
    /\ Vec(Corners.lower_right).delta_y /= Vec(Corners.upper_left).delta_y

\* C2: with return_to_original = False the delta is the standard bilinear
\* interpolation of the corner vectors, x_norm the longitude fraction and
\* y_norm the latitude fraction: the weighted sum takes the vector of
\* lower_left, lower_right, upper_left, upper_right at (0,0), (1,0), (0,1),
\* (1,1), so that the delta is the interpolant those four values fix.
C2_StandardBilinear ==
    (HasDelta /\ return_to_original = FALSE) =>
        LET ll == Vec(Corners.lower_left).delta_x
            lr == Vec(Corners.lower_right).delta_x
            ul == Vec(Corners.upper_left).delta_x
            ur == Vec(Corners.upper_right).delta_x
            Zero == Int2Rat(0)
        IN  /\ delta_p(Zero, Zero, ll, lr, ul, ur) = ll
            /\ delta_p(One, Zero, ll, lr, ul, ur) = lr
            /\ delta_p(Zero, One, ll, lr, ul, ur) = ul
            /\ delta_p(One, One, ll, lr, ul, ur) = ur
            /\ delta.delta_x = bilinear(XFrac, YFrac, ll, lr, ul, ur)

\* the corner set returned by a public mesh_design call
Returned == probe /= None /\ result /= MeshDesignFalse

ProbeLonSec == RMul(probe.lon, Int2Rat(3600))

ProbeLatSec == RMul(probe.lat, Int2Rat(3600))

\* C3: whenever mesh_design returns a corner set, the point lies in the
\* left-closed cell of lower_left (ll.lon <= lon*3600 < ll.lon + 225 and
\* ll.lat <= lat*3600 < ll.lat + 150), so x_norm and y_norm are within [0,1].
C3_PointInCell ==
    Returned =>
        /\ RLe(Int2Rat(result.lower_left.lon), ProbeLonSec)
        /\ RLt(ProbeLonSec, Int2Rat(result.lower_left.lon + 225))
        /\ RLe(Int2Rat(result.lower_left.lat), ProbeLatSec)
        /\ RLt(ProbeLatSec, Int2Rat(result.lower_left.lat + 150))
        /\ RLe(Int2Rat(0), x_norm(probe.lon, result))
        /\ RLe(x_norm(probe.lon, result), One)
        /\ RLe(Int2Rat(0), y_norm(probe.lat, result))
        /\ RLe(y_norm(probe.lat, result), One)

\* the digits of an 8-digit code given as a number
Digits(k) ==
    <<(k \div 10000000) % 10, (k \div 1000000) % 10, (k \div 100000) % 10,
      (k \div 10000) % 10, (k \div 1000) % 10, (k \div 100) % 10,
      (k \div 10) % 10, k % 10>>

OwnCode(corner) == standard_mesh_code(Rat(corner.lon, 3600), Rat(corner.lat, 3600))

\* C4: mesh_design returns lower_left = (225*m, 150*n) for integers m, n,
\* lower_right = lower_left + (225, 0), upper_left = lower_left + (0, 150),
\* upper_right = lower_left + (225, 150), each corner carrying the standard
\* mesh code of its own position; for (140.463488, 40.608410) the codes are
\* 60407305, 60407400, 60407355, 60407450.
C4_CornerLayout ==
    Returned =>
        LET ll == result.lower_left
            lr == result.lower_right
            ul == result.upper_left
            ur == result.upper_right
        IN  /\ ll.lon % 225 = 0 /\ ll.lat % 150 = 0
            /\ lr.lon = ll.lon + 225 /\ lr.lat = ll.lat
            /\ ul.lon = ll.lon /\ ul.lat = ll.lat + 150
            /\ ur.lon = ll.lon + 225 /\ ur.lat = ll.lat + 150
            /\ \A c \in {ll, lr, ul, ur} : c.standard_mesh_code = OwnCode(c)
            /\ probe = Fixture1 =>
                   /\ ll.standard_mesh_code = Digits(60407305)
                   /\ lr.standard_mesh_code = Digits(60407400)
                   /\ ul.standard_mesh_code = Digits(60407355)
                   /\ ur.standard_mesh_code = Digits(60407450)

\* mesh_design has returned the corner set of the fixture point
C4_Witness == Returned /\ probe = Fixture1

\* C5: for one point and one table, the delta of return_to_original = True
\* is the negation, in delta_x and in delta_y, of the delta of
\* return_to_original = False.
C5_DirectionNegates ==
    HasDelta =>
        LET other == calc_correction_2d_delta(CalcPoint.lon, CalcPoint.lat,
                                              ~return_to_original)
        IN  /\ delta.delta_x = RNeg(other.delta_x)
            /\ delta.delta_y = RNeg(other.delta_y)

\* a delta with two nonzero components was computed for current -> origin
C5_Witness ==
    /\ HasDelta
    /\ return_to_original = TRUE
    /\ delta.delta_x.n /= 0
    /\ delta.delta_y.n /= 0

\* the batch positions at or before k at which the delta was computed
CallsUpTo(k) == {c \in 1..k : \E j \in DOMAIN calc_calls : calc_calls[j] = c}

\* the delta in force at step k: the one computed at the latest call
DeltaInForce(k) ==
    LET j == CHOOSE c \in CallsUpTo(k) : \A e \in CallsUpTo(k) : e <= c
    IN  calc_correction_2d_delta(lon[j], lat[j], return_to_original)

Shifted(deg, d) == Float(RAdd(deg, RDiv(d, Int2Rat(3600))))

\* C6: when correction_2d returns for a batch of n points the result has n
\* entries and entry k is (lon_k + dx_k/3600, lat_k + dy_k/3600) for the
\* delta in force at step k; no point is dropped, duplicated or reordered.
C6_BatchOrder ==
    (is_iterable /\ pc \in {"loop", "returned"}) =>
        /\ Len(lst) = i - 1
        /\ \A k \in 1..Len(lst) :
               /\ lst[k].x = Shifted(lon[k], DeltaInForce(k).delta_x)
               /\ lst[k].y = Shifted(lat[k], DeltaInForce(k).delta_y)
        /\ pc = "returned" => result = lst /\ Len(result) = Len(lon)

\* a batch of three entries returned after two computations of the delta
C6_Witness ==
    /\ is_iterable
    /\ pc = "returned"
    /\ Len(result) >= 3
    /\ Len(calc_calls) = 2
    /\ lon[1] /= lon[2]
    /\ lon[2] /= lon[3]

\* the standard mesh code of batch point k (line 291)
CodeAt(k) == standard_mesh_code(lon[k], lat[k])

\* the number of iterations that reached the branch of lines 292-297
Decided ==
    IF pc = "raised" /\ raised.exception /= "MeshCodeError" THEN i
    ELSE IF pc = "raised" THEN i - 1
    ELSE Len(lst)

\* C7: in a batch the delta is recomputed at point k exactly when k is the
\* first point or its standard mesh code differs from that of point k-1;
\* otherwise the delta used for point k-1 is applied unchanged, so a batch
\* within one mesh code computes the delta once.
C7_RecomputeOnChange ==
    (is_iterable /\ pc /= "ready") =>
        /\ \A k \in 1..Decided :
               (k \in CallsUpTo(Decided)) <=> (k = 1 \/ CodeAt(k) /= CodeAt(k - 1))
        /\ Len(calc_calls) = Cardinality(CallsUpTo(Decided))
        /\ \A k \in 2..Len(lst) :
               k \notin CallsUpTo(Decided) =>
                   /\ RSub(lst[k].x.float, lon[k]) = RSub(lst[k - 1].x.float, lon[k - 1])
                   /\ RSub(lst[k].y.float, lat[k]) = RSub(lst[k - 1].y.float, lat[k - 1])

\* a returned batch of two different points of one standard mesh, corrected
\* with a single computation
C7_Witness ==
    /\ is_iterable
    /\ pc = "returned"
    /\ Len(result) >= 2
    /\ lon[1] /= lon[2]
    /\ calc_calls = <<1>>

\* C8: in every batch, a single-element batch included, the first point's
\* delta is computed from the first point's own corners, and correction_2d
\* never reads a delta before one was assigned.
C8_FirstDeltaOwn ==
    /\ ~(raised /= None /\ raised.exception = "UnboundLocalError")
    /\ (is_iterable /\ pc /= "ready") =>
           /\ calc_calls /= <<>> => calc_calls[1] = 1
           /\ Len(lst) >= 1 =>
                  LET d == calc_correction_2d_delta(lon[1], lat[1], return_to_original)
                  IN  /\ lst[1].x = Shifted(lon[1], d.delta_x)
                      /\ lst[1].y = Shifted(lat[1], d.delta_y)

\* a single-element batch has returned its one corrected point
C8_Witness ==
    /\ is_iterable
    /\ pc = "returned"
    /\ Len(lon) = 1
    /\ Len(result) = 1

\* C9: in a batch, a point whose corners cannot be resolved or whose corner
\* codes are absent from the table yields an 'unavailable' marker at its
\* position and the other points are still corrected; the batch is not
\* aborted.
C9_BatchNotAborted ==
    is_iterable =>
        ~(pc = "raised" /\ raised.exception \in {"AttributeError", "KeyError"})

\* C10: for a single point whose corner resolution fails, correction_2d
\* returns an 'unavailable' result instead of raising.
C10_SingleUnavailable ==
    (~is_iterable /\ pc /= "ready" /\ mesh_design(lon, lat) = MeshDesignFalse) =>
        pc = "returned"

-----------------------------------------------------------------------------
(* Public calls of _get_delta(mesh_code) on a constructed object.          *)

\* every code is passed as a str, as an int, as a float, and as a float that
\* int() has to truncate
CodeForms == {"str", "int", "float", "float with a fraction"}

CodeArg(form, k) ==
    CASE form = "str" -> Digits(k)
      [] form = "int" -> PyIntValue(k)
      [] form = "float" -> Float(Int2Rat(k))
      [] form = "float with a fraction" -> Float(Rat(2 * k + 1, 2))

GetDeltaCall(mesh_code) ==
    /\ pc = "ready"
    /\ probe = None
    /\ probe' = [mesh_code |-> mesh_code]
    /\ result' = get_delta(mesh_code)
    /\ UNCHANGED <<lon, lat, is_iterable, param_df, pc, return_to_original, i,
                   previous_mesh_code, delta, lst, raised, calc_calls>>
    /\ UNCHANGED loadVars
    /\ UNCHANGED webVars

\* the codes of test_get_delta_from_semidynamic and two nodes of the tables,
\* one of them missing from TableB
NextDelta ==
    \E form \in CodeForms,
       k \in {60407305, 60407450, 64415300, 99999999, NodeCode(2249, 975)} :
        GetDeltaCall(CodeArg(form, k))

SpecDelta == Init /\ [][NextDelta]_vars

\* the number a code argument stands for: the digits of a str read as a
\* number, the int itself, the float without its fraction
CodeNumber(c) ==
    IF Cardinality(DOMAIN c) = 8
    THEN c[1] * 10000000 + c[2] * 1000000 + c[3] * 100000 + c[4] * 10000
         + c[5] * 1000 + c[6] * 100 + c[7] * 10 + c[8]
    ELSE IF "int" \in DOMAIN c THEN c.int
    ELSE c.float.n \div c.float.d

GetDeltaCalled == pc = "ready" /\ probe /= None /\ "mesh_code" \in DOMAIN probe

\* C11: _get_delta looks the table up by int(mesh_code): for a code present
\* in the table it returns that row's delta_x, delta_y, delta_z, the same
\* for the str, int and float forms of the code; for an absent code it
\* raises an error that names the code as given and returns no vector.
C11_GetDeltaLookup ==
    GetDeltaCalled =>
        LET k == CodeNumber(probe.mesh_code)
        IN  IF k \in DOMAIN param_df
            THEN /\ result = Delta(param_df[k].delta_x, param_df[k].delta_y,
                                   param_df[k].delta_z)
                 /\ \A form \in CodeForms : get_delta(CodeArg(form, k)) = result
            ELSE /\ IsRaise(result)
                 /\ result.arg = probe.mesh_code
                 /\ "delta_x" \notin DOMAIN result

\* a code given as an int that the table at hand does not hold, although
\* the other table does, was looked up and the error names it
C11_Witness ==
    /\ GetDeltaCalled
    /\ probe.mesh_code = PyIntValue(NodeCode(2249, 975))
    /\ NodeCode(2249, 975) \notin DOMAIN param_df
    /\ IsRaise(result)
    /\ result.arg = probe.mesh_code

-----------------------------------------------------------------------------
(* Text and bytes.  A Python str read from a file is the tuple of its       *)
(* Unicode code points and the content of a file is the tuple of its       *)
(* bytes.  The three codecs open() is given are modelled on the bytes the   *)
(* model's files are made of: ASCII, and 0x81 0x82 0x87 0xA0 0xE3.           *)

NL == 10        \* "\n"

SP == 32        \* " "

DOT == 46       \* "."

MINUS == 45     \* "-"

PLUS == 43      \* "+"

UnicodeDecodeError(encoding) == Raise("UnicodeDecodeError", encoding)

\* the positions 1..n of a str or of bytes
Positions(t) == [k \in 1..Len(t) |-> k]

\* a continuation byte of UTF-8
IsCont(c) == c \in 128..191

\* the number of continuation bytes a UTF-8 lead byte announces, 0 for a
\* byte that cannot start a character
Utf8Follow(c) ==
    IF c \in 194..223 THEN 1
    ELSE IF c \in 224..239 THEN 2
    ELSE IF c \in 240..244 THEN 3
    ELSE 0

\* the second byte of a UTF-8 character is in the range its lead byte allows
\* (no overlong form, no surrogate, nothing above U+10FFFF)
Utf8SecondOk(c, d) ==
    /\ IsCont(d)
    /\ c = 224 => d >= 160
    /\ c = 237 => d <= 159
    /\ c = 240 => d >= 144
    /\ c = 244 => d <= 143

\* the byte at k starts a well-formed UTF-8 character
Utf8CharOk(b, k) ==
    With2(b[k], Utf8Follow(b[k]), LAMBDA c, n :
        \/ c < 128
        \/ /\ n > 0
           /\ k + n <= Len(b)
           /\ Utf8SecondOk(c, b[k + 1])
           /\ \A m \in 2..n : IsCont(b[k + m]))

\* the continuation byte at k belongs to a character that starts before it
Utf8ContOk(b, k) ==
    \E q \in (k - 3)..(k - 1) :
        /\ q >= 1
        /\ ~IsCont(b[q])
        /\ k <= q + Utf8Follow(b[q])
        /\ \A j \in (q + 1)..(k - 1) : IsCont(b[j])

\* the code point of the UTF-8 character that starts at k
Utf8CodePoint(b, k) ==
    With2(b[k], Utf8Follow(b[k]), LAMBDA c, n :
        CASE n = 0 -> c
          [] n = 1 -> (c % 32) * 64 + (b[k + 1] % 64)
          [] n = 2 -> (c % 16) * 4096 + (b[k + 1] % 64) * 64 + (b[k + 2] % 64)
          [] n = 3 -> (c % 8) * 262144 + (b[k + 1] % 64) * 4096
                      + (b[k + 2] % 64) * 64 + (b[k + 3] % 64))

utf8_decode(b) ==
    IF \A k \in 1..Len(b) : IF IsCont(b[k]) THEN Utf8ContOk(b, k) ELSE Utf8CharOk(b, k)
    THEN With(SelectSeq(Positions(b), LAMBDA k : ~IsCont(b[k])), LAMBDA starts :
             [text |-> [m \in 1..Len(starts) |-> Utf8CodePoint(b, starts[m])]])
    ELSE UnicodeDecodeError("utf-8")

\* the double-byte characters of JIS X 0208 over the model's bytes, keyed by
\* lead * 256 + trail
JISX0208 ==
    (33088 :> 12288) @@ (33153 :> 65309) @@ (33154 :> 8800) @@ (33159 :> 8734)
    @@ (33184 :> 9633) @@ (33251 :> 8730) @@ (33409 :> 65345) @@ (33410 :> 65346)
    @@ (33415 :> 65351) @@ (33440 :> 12354) @@ (33507 :> 12421) @@ (58176 :> 32002)
    @@ (58241 :> 32314) @@ (58242 :> 32359) @@ (58247 :> 32346) @@ (58272 :> 32588)
    @@ (58339 :> 32893)

\* what cp932 adds to it: the NEC row of lead byte 0x87 and the single
\* byte 0xA0
CP932Extension ==
    (34624 :> 9312) @@ (34689 :> 12319) @@ (34690 :> 8470) @@ (34695 :> 12966)

\* the double-byte table of a codec
DoubleByte(encoding) ==
    IF encoding = "cp932" THEN JISX0208 @@ CP932Extension ELSE JISX0208

\* a byte that starts a double-byte character
IsLead(c) == c \in 129..159 \/ c \in 224..252

\* the single bytes cp932 decodes and Shift_JIS does not
IsCp932Single(c) == c \in {128, 160, 253, 254, 255}

\* the byte at k starts a character: an even number of lead bytes in a row
\* stand right before it (after any other byte a character starts, and lead
\* bytes in a row pair up from there)
SjisStart(b, k) ==
    With(CHOOSE q \in 0..(k - 1) :
             /\ q = 0 \/ ~IsLead(b[q])
             /\ \A j \in (q + 1)..(k - 1) : IsLead(b[j]),
         LAMBDA q : (k - 1 - q) % 2 = 0)

\* the character that starts at k is one the codec decodes
SjisCharOk(encoding, b, k) ==
    With(b[k], LAMBDA c :
        \/ c < 128
        \/ c \in 161..223
        \/ encoding = "cp932" /\ IsCp932Single(c)
        \/ /\ IsLead(c)
           /\ k + 1 <= Len(b)
           /\ (c * 256 + b[k + 1]) \in DOMAIN DoubleByte(encoding))

\* the code point of the character that starts at k
SjisCodePoint(encoding, b, k) ==
    With(b[k], LAMBDA c :
        IF c < 128 THEN c
        ELSE IF c \in 161..223 THEN 65377 + (c - 161)
        ELSE IF c = 128 THEN 128
        ELSE IF c = 160 THEN 63728
        ELSE IF c \in 253..255 THEN 63729 + (c - 253)
        ELSE DoubleByte(encoding)[c * 256 + b[k + 1]])

sjis_decode(encoding, b) ==
    With(SelectSeq(Positions(b), LAMBDA k : SjisStart(b, k)), LAMBDA starts :
        IF \A m \in 1..Len(starts) : SjisCharOk(encoding, b, starts[m])
        THEN [text |-> [m \in 1..Len(starts) |->
                           SjisCodePoint(encoding, b, starts[m])]]
        ELSE UnicodeDecodeError(encoding))

\* bytes.decode(encoding): [text |-> the str], or UnicodeDecodeError
decode(b, encoding) ==
    With(b, LAMBDA bytes :
        IF encoding = "utf-8" THEN utf8_decode(bytes)
        ELSE sjis_decode(encoding, bytes))

-----------------------------------------------------------------------------
(* SemidynamicCorrectionFiles._clean_line.  The tokens of the model are     *)
(* made of digits, signs, points, letters and newlines: no exponent, no     *)
(* underscore and no blank inside a number.                                 *)

\* a str kept as a value of a cleaned line
PyStr(txt) == [str |-> txt]

In(c, txt) == \E k \in 1..Len(txt) : txt[k] = c

IsDigit(c) == c \in 48..57

\* the number a str of digits writes
RECURSIVE DigitsValue(_)
DigitsValue(ds) ==
    With(ds, LAMBDA t :
        IF t = <<>> THEN 0
        ELSE 10 * DigitsValue(SubSeq(t, 1, Len(t) - 1)) + (t[Len(t)] - 48))

RECURSIVE Pow10(_)
Pow10(n) == IF n = 0 THEN 1 ELSE 10 * Pow10(n - 1)

HasSign(txt) == txt /= <<>> /\ txt[1] \in {PLUS, MINUS}

Signed(txt, k) == IF txt /= <<>> /\ txt[1] = MINUS THEN -k ELSE k

\* int(txt) of line 106
int(txt) ==
    With(txt, LAMBDA t :
    With(IF HasSign(t) THEN Tail(t) ELSE t, LAMBDA body :
        IF body /= <<>> /\ \A k \in 1..Len(body) : IsDigit(body[k])
        THEN PyIntValue(Signed(t, DigitsValue(body)))
        ELSE Raise("ValueError", t)))

\* float(txt) of line 103
float(txt) ==
    With(txt, LAMBDA t :
    With(IF HasSign(t) THEN Tail(t) ELSE t, LAMBDA body :
    With(SelectSeq(body, LAMBDA c : c /= DOT), LAMBDA ds :
        IF /\ Len(ds) = Len(body) - 1
           /\ ds /= <<>>
           /\ \A k \in 1..Len(ds) : IsDigit(ds[k])
        THEN With(CHOOSE k \in 1..Len(body) : body[k] = DOT, LAMBDA point :
                 Float(Rat(Signed(t, DigitsValue(ds)), Pow10(Len(body) - point))))
        ELSE Raise("ValueError", t))))

\* lines 98-113 with an empty str appended like any other str
clean_token_keeps_empty(token) ==
    With(SelectSeq(token, LAMBDA c : c /= NL), LAMBDA txt :
    With(IF In(DOT, txt) THEN float(txt) ELSE int(txt), LAMBDA number :
        IF ~IsRaise(number) THEN <<number>>
        ELSE <<PyStr(txt)>>))

\* lines 98-113: what one element of the line appends to the result
clean_token(token) ==
    With(SelectSeq(token, LAMBDA c : c /= NL), LAMBDA txt :
    With(IF In(DOT, txt) THEN float(txt) ELSE int(txt), LAMBDA number :
        IF ~IsRaise(number) THEN <<number>>
        ELSE IF txt = <<>> THEN <<>>
        ELSE <<PyStr(txt)>>))

\* lines 96-114
RECURSIVE clean_line(_)
clean_line(line) ==
    With(line, LAMBDA l :
        IF l = <<>> THEN <<>>
        ELSE clean_line(SubSeq(l, 1, Len(l) - 1)) \o clean_token(l[Len(l)]))

-----------------------------------------------------------------------------
(* SemidynamicCorrectionFiles._get_file_path.  A path is a str; a datetime  *)
(* is the record of its fields.                                            *)

\* datetime.datetime(year, month, day, hour, minute, second, microsecond)
Datetime(year, month, day, hour, microsecond) ==
    [year |-> year, month |-> month, day |-> day, hour |-> hour,
     minute |-> 0, second |-> 0, microsecond |-> microsecond]

-----------------------------------------------------------------------------
(* datetime_formatter of a str (formatter.py, lines 18-40): strptime of the *)
(* standard library under the formats of the list, then fromisoformat.     *)
(* The strings considered hold no week date ("W"); white space and digits  *)
(* are those of ASCII.                                                      *)

\* lines 18-26, as text: the formats
\*   "%Y-%m-%dT%H:%M:%S.%f+%z", "%Y-%m-%dT%H:%M:%S.%f", "%Y-%m-%dT%H:%M:%S",
\*   "%Y-%m-%dT%H:%M", "%Y-%m-%d %H:%M:%S", "%Y/%m/%d %H:%M:%S",
\*   "%Y/%m/%d %H:%M"
fmts ==
    << <<37, 89, 45, 37, 109, 45, 37, 100, 84, 37, 72, 58, 37, 77, 58, 37, 83,
         46, 37, 102, 43, 37, 122>>,
       <<37, 89, 45, 37, 109, 45, 37, 100, 84, 37, 72, 58, 37, 77, 58, 37, 83,
         46, 37, 102>>,
       <<37, 89, 45, 37, 109, 45, 37, 100, 84, 37, 72, 58, 37, 77, 58, 37, 83>>,
       <<37, 89, 45, 37, 109, 45, 37, 100, 84, 37, 72, 58, 37, 77>>,
       <<37, 89, 45, 37, 109, 45, 37, 100, 32, 37, 72, 58, 37, 77, 58, 37, 83>>,
       <<37, 89, 47, 37, 109, 47, 37, 100, 32, 37, 72, 58, 37, 77, 58, 37, 83>>,
       <<37, 89, 47, 37, 109, 47, 37, 100, 32, 37, 72, 58, 37, 77>> >>

\* n digits stand in txt from position p
AllDigits(txt, p, n) ==
    p + n - 1 <= Len(txt) /\ \A q \in p..(p + n - 1) : IsDigit(txt[q])

\* the positions after the runs of 1 to 6 digits from position p, the
\* longest first ([0-9]{1,6})
FractionEnds(txt, p) ==
    With(CHOOSE n \in 0..6 : AllDigits(txt, p, n) /\ (n = 6 \/ ~AllDigits(txt, p, n + 1)),
         LAMBDA count : [n \in 1..count |-> p + count - n + 1])

\* _strptime.TimeRE (the patterns of the directives Y, m, d, H, M, S, f and
\* z): the positions after a match of the directive at p, in the order in
\* which the regular expression tries its alternatives
directive_ends(directive, txt, p) ==
    CASE directive = 89 -> IF AllDigits(txt, p, 4) THEN <<p + 4>> ELSE <<>>
      [] directive \in {109, 100, 72, 77, 83} ->
            LET lowest == IF directive \in {109, 100} THEN 1 ELSE 0
                highest == CASE directive = 109 -> 12
                             [] directive = 100 -> 31
                             [] directive = 72 -> 23
                             [] directive = 77 -> 59
                             [] directive = 83 -> 61
            IN  (IF AllDigits(txt, p, 2)
                      /\ DigitsValue(SubSeq(txt, p, p + 1)) \in lowest..highest
                 THEN <<p + 2>> ELSE <<>>)
                \o (IF AllDigits(txt, p, 1) /\ txt[p] - 48 >= lowest
                    THEN <<p + 1>> ELSE <<>>)
                \o (IF directive = 100 /\ p + 1 <= Len(txt) /\ txt[p] = SP
                          /\ txt[p + 1] \in 49..57
                    THEN <<p + 2>> ELSE <<>>)
      [] directive = 102 -> FractionEnds(txt, p)
      [] directive = 122 ->
            \* :?[0-5]\d standing at o, behind a ":" or not
            LET SexagesimalEnds(o) ==
                    With(IF o <= Len(txt) /\ txt[o] = 58 THEN o + 1 ELSE o, LAMBDA q :
                        IF AllDigits(txt, q, 2) /\ txt[q] \in 48..53
                        THEN <<q + 2>> ELSE <<>>)
            IN
            IF p <= Len(txt) /\ txt[p] = 90 THEN <<p + 1>>
            ELSE IF p <= Len(txt) /\ txt[p] \in {PLUS, MINUS} /\ AllDigits(txt, p + 1, 2)
            THEN With(SexagesimalEnds(p + 3), LAMBDA minutes :
                 IF minutes = <<>> THEN <<>>
                 ELSE With(SexagesimalEnds(minutes[1]), LAMBDA seconds :
                      IF seconds = <<>> THEN minutes
                      ELSE (IF seconds[1] <= Len(txt) /\ txt[seconds[1]] = DOT
                            THEN FractionEnds(txt, seconds[1] + 1) ELSE <<>>)
                           \o seconds \o minutes))
            ELSE <<>>
      [] OTHER -> <<>>

\* _strptime._strptime, lines 345-347: format_regex.match(data_string) from
\* the character k of the format and the position p of the string; found
\* holds the text each directive has matched. A character of the format
\* that is no directive matches itself, whatever the case of a letter
\* (re.IGNORECASE); white space matches \s+
RECURSIVE strptime_match(_, _, _, _, _)
strptime_match(fmt, k, txt, p, found) ==
    IF k > Len(fmt) THEN [matched |-> TRUE, end |-> p, found |-> found]
    ELSE LET directive == fmt[k] = 37
             Lower(c) == IF c \in 65..90 THEN c + 32 ELSE c
             white == {q \in p..Len(txt) :
                          \A o \in p..q : txt[o] \in {9, 10, 11, 12, 13, 32}}
             ends == IF directive THEN directive_ends(fmt[k + 1], txt, p)
                     ELSE IF fmt[k] \in {9, 10, 11, 12, 13, 32}
                     THEN [n \in 1..Cardinality(white) |-> p + Cardinality(white) - n + 1]
                     ELSE IF p <= Len(txt) /\ Lower(txt[p]) = Lower(fmt[k])
                     THEN <<p + 1>> ELSE <<>>
             rest(n) ==
                 strptime_match(fmt, IF directive THEN k + 2 ELSE k + 1, txt, ends[n],
                     IF directive
                     THEN found @@ (fmt[k + 1] :> SubSeq(txt, p, ends[n] - 1))
                     ELSE found)
             good == {n \in 1..Len(ends) : rest(n).matched}
         IN  IF good = {} THEN [matched |-> FALSE, end |-> p, found |-> found]
             ELSE rest(CHOOSE n \in good : \A m \in good : n <= m)

\* calendar.monthrange
days_in_month(year, month) ==
    IF month = 2
    THEN IF year % 4 = 0 /\ (year % 100 /= 0 \/ year % 400 = 0) THEN 29 ELSE 28
    ELSE IF month \in {4, 6, 9, 11} THEN 30 ELSE 31

\* datetime.datetime.strptime(txt, fmt): the datetime, or the ValueError of a
\* str that does not match, of unconverted data and of a date or a second
\* out of range
strptime(txt, fmt) ==
    With(strptime_match(fmt, 1, txt, 1, <<>>), LAMBDA m :
    IF ~m.matched \/ m.end /= Len(txt) + 1 THEN Raise("ValueError", fmt)
    ELSE LET value(directive) ==
                 IF directive \in DOMAIN m.found
                 THEN DigitsValue(SelectSeq(m.found[directive], IsDigit))
                 ELSE 0
             microsecond ==
                 IF 102 \in DOMAIN m.found
                 THEN value(102) * Pow10(6 - Len(m.found[102]))
                 ELSE 0
             \* the seconds east of UTC that the text of %z writes
             utcoffset(z) ==
                 IF z = <<90>> THEN 0
                 ELSE With(SelectSeq(z, IsDigit), LAMBDA ds :
                      Signed(z, 3600 * DigitsValue(SubSeq(ds, 1, 2))
                                  + 60 * DigitsValue(SubSeq(ds, 3, 4))
                                  + (IF Len(ds) >= 6 THEN DigitsValue(SubSeq(ds, 5, 6))
                                     ELSE 0)))
         IN  IF value(89) = 0 \/ value(100) > days_in_month(value(89), value(109))
                  \/ value(83) > 59
             THEN Raise("ValueError", fmt)
             ELSE IF 122 \in DOMAIN m.found
             THEN [year |-> value(89), month |-> value(109), day |-> value(100),
                   hour |-> value(72), minute |-> value(77), second |-> value(83),
                   microsecond |-> microsecond,
                   tzinfo |-> utcoffset(m.found[122])]
             ELSE [year |-> value(89), month |-> value(109), day |-> value(100),
                   hour |-> value(72), minute |-> value(77), second |-> value(83),
                   microsecond |-> microsecond])

\* datetime._parse_hh_mm_ss_ff: the components of HH[:?MM[:?SS[{.,}f+]]]
\* that the str writes (hours, minutes, seconds, microseconds), or the
\* ValueError; comps holds the components read before position p
RECURSIVE parse_hh_mm_ss_ff(_, _, _, _)
parse_hh_mm_ss_ff(tstr, p, has_sep, comps) ==
    IF ~AllDigits(tstr, p, 2) THEN Raise("ValueError", tstr)
    ELSE LET read == Append(comps, DigitsValue(SubSeq(tstr, p, p + 1)))
             sep == IF comps = <<>> THEN p + 2 <= Len(tstr) /\ tstr[p + 2] = 58
                    ELSE has_sep
         IN  IF p + 2 > Len(tstr) THEN [value |-> read]
             ELSE IF Len(read) < 3 /\ sep /\ tstr[p + 2] /= 58
             THEN Raise("ValueError", tstr)
             ELSE IF Len(read) < 3
             THEN parse_hh_mm_ss_ff(tstr, IF sep THEN p + 3 ELSE p + 2, sep, read)
             ELSE IF tstr[p + 2] \in {DOT, 44} /\ p + 3 <= Len(tstr)
                       /\ AllDigits(tstr, p + 3, Len(tstr) - p - 2)
             THEN With(SubSeq(tstr, p + 3, IF Len(tstr) < p + 8 THEN Len(tstr) ELSE p + 8),
                       LAMBDA digits :
                           [value |-> Append(read, DigitsValue(digits)
                                                     * Pow10(6 - Len(digits)))])
             ELSE Raise("ValueError", tstr)

\* component n of the components read, 0 when the str does not write it
Comp(comps, n) == IF n <= Len(comps) THEN comps[n] ELSE 0

\* datetime._parse_isoformat_time: the time of day and the offset, or the
\* ValueError
parse_isoformat_time(tstr) ==
    IF Len(tstr) < 2 THEN Raise("ValueError", tstr)
    ELSE LET first(c) == IF In(c, tstr)
                         THEN CHOOSE k \in 1..Len(tstr) :
                                  tstr[k] = c /\ \A o \in 1..(k - 1) : tstr[o] /= c
                         ELSE 0
             tz_pos == IF first(MINUS) > 0 THEN first(MINUS)
                       ELSE IF first(PLUS) > 0 THEN first(PLUS)
                       ELSE first(90)
             time_comps == parse_hh_mm_ss_ff(
                               IF tz_pos > 0 THEN SubSeq(tstr, 1, tz_pos - 1) ELSE tstr,
                               1, FALSE, <<>>)
             tzstr == SubSeq(tstr, tz_pos + 1, Len(tstr))
             tz_comps == parse_hh_mm_ss_ff(tzstr, 1, FALSE, <<>>)
         IN  IF IsRaise(time_comps) THEN time_comps
             ELSE IF tz_pos = 0 THEN [value |-> time_comps.value]
             ELSE IF tz_pos = Len(tstr) /\ tstr[tz_pos] = 90
             THEN [value |-> time_comps.value, tzinfo |-> 0]
             ELSE IF Len(tzstr) \in {0, 1, 3} \/ IsRaise(tz_comps)
             THEN Raise("ValueError", tstr)
             ELSE With(3600 * Comp(tz_comps.value, 1) + 60 * Comp(tz_comps.value, 2)
                           + Comp(tz_comps.value, 3), LAMBDA seconds :
                  IF seconds >= 86400 THEN Raise("ValueError", tstr)
                  ELSE [value |-> time_comps.value,
                        tzinfo |-> IF tstr[tz_pos] = MINUS THEN -seconds ELSE seconds])

\* datetime.datetime.fromisoformat of a str without a week date: the
\* datetime, or the ValueError (a separator that no time follows is one, as
\* in the implementation in C)
fromisoformat(txt) ==
    IF Len(txt) < 7 THEN Raise("ValueError", txt)
    ELSE LET has_sep == txt[5] = MINUS
             separator_location == IF Len(txt) = 7 THEN 7
                                   ELSE IF has_sep THEN 10 ELSE 8
             dstr == SubSeq(txt, 1, IF Len(txt) < separator_location THEN Len(txt)
                                    ELSE separator_location)
             tstr == SubSeq(txt, separator_location + 2, Len(txt))
             pos == IF has_sep THEN 6 ELSE 5
             day_pos == IF has_sep THEN 9 ELSE 7
             year == DigitsValue(SubSeq(dstr, 1, 4))
             month == DigitsValue(SubSeq(dstr, pos, pos + 1))
             day == DigitsValue(SubSeq(dstr, day_pos, day_pos + 1))
             time == IF Len(txt) <= separator_location THEN [value |-> <<>>]
                     ELSE parse_isoformat_time(tstr)
         IN  IF ~(/\ Len(dstr) = day_pos + 1
                  /\ AllDigits(dstr, 1, 4)
                  /\ AllDigits(dstr, pos, 2)
                  /\ (dstr[pos + 2] = MINUS) = has_sep
                  /\ AllDigits(dstr, day_pos, 2))
             THEN Raise("ValueError", txt)
             ELSE IF year = 0 \/ month \notin 1..12 \/ day \notin 1..days_in_month(year, month)
             THEN Raise("ValueError", txt)
             ELSE IF IsRaise(time) THEN Raise("ValueError", txt)
             ELSE IF Comp(time.value, 1) > 23 \/ Comp(time.value, 2) > 59
                       \/ Comp(time.value, 3) > 59
             THEN Raise("ValueError", txt)
             ELSE IF "tzinfo" \in DOMAIN time
             THEN [year |-> year, month |-> month, day |-> day,
                   hour |-> Comp(time.value, 1), minute |-> Comp(time.value, 2),
                   second |-> Comp(time.value, 3),
                   microsecond |-> Comp(time.value, 4), tzinfo |-> time.tzinfo]
             ELSE [year |-> year, month |-> month, day |-> day,
                   hour |-> Comp(time.value, 1), minute |-> Comp(time.value, 2),
                   second |-> Comp(time.value, 3),
                   microsecond |-> Comp(time.value, 4)]

\* .replace(microsecond=0) without its effect
replace_nothing(dt) == dt

\* .replace(microsecond=0)
replace_microsecond(dt) == [dt EXCEPT !.microsecond = 0]

\* formatter.py, lines 28-42 (chiriin.utils.datetime_formatter, lines 31-45,
\* is the same function): a datetime object, a str, or a value of another
\* type
datetime_formatter(dt) ==
    IF "year" \in DOMAIN dt THEN replace_microsecond(dt)
    ELSE IF "str" \in DOMAIN dt
    THEN With({k \in 1..Len(fmts) : ~IsRaise(strptime(dt.str, fmts[k]))}, LAMBDA parsed :
         IF parsed /= {}
         THEN replace_microsecond(
                  strptime(dt.str, fmts[CHOOSE k \in parsed : \A o \in parsed : k <= o]))
         ELSE With(fromisoformat(dt.str), LAMBDA d :
              IF IsRaise(d) THEN Raise("ValueError", dt)
              ELSE replace_microsecond(
                       [year |-> d.year, month |-> d.month, day |-> d.day,
                        hour |-> d.hour, minute |-> d.minute, second |-> d.second,
                        microsecond |-> d.microsecond])))
    ELSE Raise("TypeError", dt)

-----------------------------------------------------------------------------

\* str(year) of a year of four digits
str_year(year) ==
    <<48 + ((year \div 1000) % 10), 48 + ((year \div 100) % 10),
      48 + ((year \div 10) % 10), 48 + (year % 10)>>

\* sub in txt
IsSubstring(sub, txt) ==
    \E k \in 0..(Len(txt) - Len(sub)) : SubSeq(txt, k + 1, k + Len(sub)) = sub

\* lines 70-73 without the fiscal year: the calendar year of the date
fiscal_year_is_calendar_year(dt) == dt.year

\* lines 70-73
fiscal_year(dt) == IF dt.month < 4 THEN dt.year - 1 ELSE dt.year

\* lines 69-75: [path |-> the first matching path], or the IndexError of [0]
get_file_path(fs, dt) ==
    With(fiscal_year(datetime_formatter(dt)), LAMBDA year :
    With(SelectSeq(fs, LAMBDA file : IsSubstring(str_year(year), file)),
         LAMBDA file_path :
        IF file_path = <<>> THEN Raise("IndexError", year)
        ELSE [path |-> file_path[1]]))

\* the paths of parameter files:
\*   y2023: "/d/SemiDyna2023.par"
\*   y2024: "/d/SemiDyna2024.par"
\*   y2024_old: "/d/SemiDyna2024_old.par"
\*   dir2024_y2023: "/2024/SemiDyna2023.par"
\*   dir2024_y2024: "/2024/SemiDyna2024.par"
File ==
    [ y2023 |-> <<47, 100, 47, 83, 101, 109, 105, 68, 121, 110, 97, 50, 48,
          50, 51, 46, 112, 97, 114>>,
      y2024 |-> <<47, 100, 47, 83, 101, 109, 105, 68, 121, 110, 97, 50, 48,
          50, 52, 46, 112, 97, 114>>,
      y2024_old |-> <<47, 100, 47, 83, 101, 109, 105, 68, 121, 110, 97, 50,
          48, 50, 52, 95, 111, 108, 100, 46, 112, 97, 114>>,
      dir2024_y2023 |-> <<47, 50, 48, 50, 52, 47, 83, 101, 109, 105, 68, 121,
          110, 97, 50, 48, 50, 51, 46, 112, 97, 114>>,
      dir2024_y2024 |-> <<47, 50, 48, 50, 52, 47, 83, 101, 109, 105, 68, 121,
          110, 97, 50, 48, 50, 52, 46, 112, 97, 114>> ]

\* what glob can return (line 58): one file per year in either order, a year
\* without a file, two files of one year, no file at all, and a data
\* directory whose own name holds a year
FileLists ==
    { <<File.y2023, File.y2024>>, <<File.y2024, File.y2023>>, <<File.y2023>>,
      <<File.y2024, File.y2024_old>>, <<File.y2024_old, File.y2023, File.y2024>>, <<>>,
      <<File.dir2024_y2023, File.dir2024_y2024>> }

\* no SemiDynamic object exists: a SemidynamicCorrectionFiles object was
\* constructed (line 58)
InitFiles ==
    /\ lon = Unbound
    /\ lat = Unbound
    /\ altitude = Unbound
    /\ is_iterable = FALSE
    /\ param_df = Unbound
    /\ pc = "files"
    /\ return_to_original = Unbound
    /\ i = 0
    /\ previous_mesh_code = Unbound
    /\ delta = Unbound
    /\ lst = Unbound
    /\ result = Unbound
    /\ raised = None
    /\ calc_calls = <<>>
    /\ probe = None
    /\ tried = <<>>
    /\ opened = <<>>
    /\ retries = 0 /\ response = None /\ idxs = <<>> /\ tasks = <<>>
    /\ results = <<>> /\ requests = 0 /\ failures = 0

InitFilePath ==
    /\ InitFiles
    /\ files \in FileLists
    /\ datetime_ \in
           { Datetime(y, m, d, h, us) :
               y \in {2024, 2025}, m \in {1, 3, 4, 12}, d \in {1, 28}, h \in {0, 23},
               us \in {0, 500000} }
    /\ disk = <<>>

\* a call of _get_file_path(datetime_)
GetFilePathCall ==
    /\ pc = "files"
    /\ result' = get_file_path(files, datetime_)
    /\ pc' = "returned"
    /\ UNCHANGED <<lon, lat, is_iterable, param_df, return_to_original, i,
                   previous_mesh_code, delta, lst, raised, calc_calls, probe>>
    /\ UNCHANGED loadVars
    /\ UNCHANGED webVars

SpecFilePath == InitFilePath /\ [][GetFilePathCall]_vars

\* the paths of the list whose name holds the fiscal year of the claim:
\* the calendar year from April on, the year before until March
ClaimedYear == IF datetime_.month \in 4..12 THEN datetime_.year ELSE datetime_.year - 1

Candidates == {k \in 1..Len(files) : IsSubstring(str_year(ClaimedYear), files[k])}

FilePathCalled == pc = "returned" /\ files \in FileLists

\* C12: _get_file_path returns a file only when exactly one parameter
\* file's name embeds the fiscal year; with no match or more than one match
\* it fails with a not-found / configuration error: it neither picks one of
\* the candidates nor fails in another way.
C12_UniqueFileOrError ==
    FilePathCalled =>
        IF Cardinality(Candidates) = 1
        THEN ~IsRaise(result) /\ \E k \in Candidates : result.path = files[k]
        ELSE IsRaise(result) /\ result.exception \in {"NotFoundError", "ConfigurationError"}

-----------------------------------------------------------------------------
(* Calls of _clean_line(line) on a SemidynamicCorrectionFiles object.      *)

\* the tokens of the lines _clean_line is called on:
\*   Empty: ""
\*   Newline: "\n"
\*   Twelve: "12"
\*   MinusFive: "-5"
\*   OnePointFive: "1.5"
\*   MinusPointFive: "-.5"
\*   X: "x"
\*   XPointOne: "x.1"
\*   OnePointTwoPointThree: "1.2.3"
\*   TwelveNewline: "12\n"
\*   HalfNewline: "0.5\n"
\*   Minus: "-"
Tok ==
    [ Empty |-> <<>>,
      Newline |-> <<10>>,
      Twelve |-> <<49, 50>>,
      MinusFive |-> <<45, 53>>,
      OnePointFive |-> <<49, 46, 53>>,
      MinusPointFive |-> <<45, 46, 53>>,
      X |-> <<120>>,
      XPointOne |-> <<120, 46, 49>>,
      OnePointTwoPointThree |-> <<49, 46, 50, 46, 51>>,
      TwelveNewline |-> <<49, 50, 10>>,
      HalfNewline |-> <<48, 46, 53, 10>>,
      Minus |-> <<45>> ]

MaxTokens == 3

InitClean ==
    /\ InitFiles
    /\ files = <<File.y2023, File.y2024>>
    /\ datetime_ = None
    /\ disk = <<>>

CleanLineCall(line) ==
    /\ pc = "files"
    /\ probe' = [line |-> line]
    /\ result' = clean_line(line)
    /\ pc' = "returned"
    /\ UNCHANGED <<lon, lat, is_iterable, param_df, return_to_original, i,
                   previous_mesh_code, delta, lst, raised, calc_calls>>
    /\ UNCHANGED loadVars
    /\ UNCHANGED webVars

SpecClean ==
    /\ InitClean
    /\ [][\E n \in 0..MaxTokens :
              \E line \in [1..n -> {Tok[name] : name \in DOMAIN Tok}] :
                  CleanLineCall(line)]_vars

CleanLineCalled == pc = "returned" /\ probe /= None /\ "line" \in DOMAIN probe

\* a token without its newline
Stripped(token) == SelectSeq(token, LAMBDA c : c /= NL)

\* what the claim makes of one non-empty token
ClaimedElement(t) ==
    IF In(DOT, t) /\ ~IsRaise(float(t)) THEN float(t)
    ELSE IF ~In(DOT, t) /\ ~IsRaise(int(t)) THEN int(t)
    ELSE PyStr(t)

-----------------------------------------------------------------------------
(* SemidynamicCorrectionFiles.read_file.  A DataFrame is the record of its  *)
(* column labels, its index and its rows; a cell is the value _clean_line   *)
(* produced, or None where pandas pads a short row.                        *)

\* f.readlines(): the text cut after every newline
readlines(text) ==
    With(text, LAMBDA t :
    With(SelectSeq(Positions(t), LAMBDA k : t[k] = NL \/ k = Len(t)), LAMBDA ends :
        [m \in 1..Len(ends) |->
            SubSeq(t, IF m = 1 THEN 1 ELSE ends[m - 1] + 1, ends[m])]))

\* line.split(" "): the pieces between single blanks, empty ones included
split(line) ==
    With(line, LAMBDA t :
    With(Append(SelectSeq(Positions(t), LAMBDA k : t[k] = SP), Len(t) + 1),
         LAMBDA seps :
        [m \in 1..Len(seps) |->
            SubSeq(t, IF m = 1 THEN 1 ELSE seps[m - 1] + 1, seps[m] - 1)]))

\* readlines()[16:]: the header line is dropped with the preamble
skip_preamble_and_header(lines) == SubSeq(lines, 17, Len(lines))

\* line 130: readlines()[15:]
skip_preamble(lines) == SubSeq(lines, 16, Len(lines))

\* the column labels of lines 135-136:
\*   MeshCode: "MeshCode"
\*   dB: "dB(sec)"
\*   dL: "dL(sec)"
\*   dH: "dH(m)"
\*   delta_y: "delta_y"
\*   delta_x: "delta_x"
\*   delta_z: "delta_z"
Label ==
    [ MeshCode |-> <<77, 101, 115, 104, 67, 111, 100, 101>>,
      dB |-> <<100, 66, 40, 115, 101, 99, 41>>,
      dL |-> <<100, 76, 40, 115, 101, 99, 41>>,
      dH |-> <<100, 72, 40, 109, 41>>,
      delta_y |-> <<100, 101, 108, 116, 97, 95, 121>>,
      delta_x |-> <<100, 101, 108, 116, 97, 95, 120>>,
      delta_z |-> <<100, 101, 108, 116, 97, 95, 122>> ]

\* pd.DataFrame(data, columns=headers) of a list of rows: the longest row
\* must have as many cells as there are labels, a shorter row is padded
DataFrame(data, columns) ==
    With2(data, columns, LAMBDA rows, labels :
        IF rows /= <<>> /\ \E k \in 1..Len(rows) : Len(rows[k]) > Len(labels)
        THEN Raise("ValueError", "columns")
        ELSE IF rows /= <<>> /\ \A k \in 1..Len(rows) : Len(rows[k]) < Len(labels)
        THEN Raise("ValueError", "columns")
        ELSE [columns |-> labels,
              index |-> [k \in 1..Len(rows) |-> PyIntValue(k - 1)],
              data |-> [k \in 1..Len(rows) |->
                           [c \in 1..Len(labels) |->
                               IF c <= Len(rows[k]) THEN rows[k][c] ELSE None]]])

\* line 135: the new label of a column
rename(label) ==
    IF label = PyStr(Label.dB) THEN PyStr(Label.delta_y)
    ELSE IF label = PyStr(Label.dL) THEN PyStr(Label.delta_x)
    ELSE IF label = PyStr(Label.dH) THEN PyStr(Label.delta_z)
    ELSE label

\* df.set_index(label): the column becomes the index
set_index(df, label) ==
    With2(df, {c \in 1..Len(df.columns) : df.columns[c] = label}, LAMBDA d, found :
        IF found = {} THEN Raise("KeyError", label)
        ELSE With(CHOOSE c \in found : \A o \in found : c <= o, LAMBDA key :
            [columns |-> [c \in 1..(Len(d.columns) - 1) |->
                             d.columns[IF c < key THEN c ELSE c + 1]],
             index |-> [k \in 1..Len(d.data) |-> d.data[k][key]],
             data |-> [k \in 1..Len(d.data) |->
                          [c \in 1..(Len(d.columns) - 1) |->
                              d.data[k][IF c < key THEN c ELSE c + 1]]]]))

\* lines 127-136: the DataFrame, or the exception that leaves read_file
read_file(fs, dsk, dt, encoding) ==
    With(get_file_path(fs, dt), LAMBDA file_path :
    IF IsRaise(file_path) THEN file_path ELSE
    With(decode(dsk[file_path.path], encoding), LAMBDA f :
    IF IsRaise(f) THEN f ELSE
    With(skip_preamble(readlines(f.text)), LAMBDA lines :
    IF lines = <<>> THEN Raise("IndexError", "lines[0]") ELSE
    With2(clean_line(split(lines[1])),
          [k \in 1..(Len(lines) - 1) |-> clean_line(split(lines[k + 1]))],
          LAMBDA headers, data :
    With(DataFrame(data, headers), LAMBDA df :
    IF IsRaise(df) THEN df ELSE
        set_index([df EXCEPT !.columns = [c \in 1..Len(df.columns) |->
                                             rename(df.columns[c])]],
                  PyStr(Label.MeshCode)))))))

-----------------------------------------------------------------------------
(* Parameter files.                                                        *)

\* the lines of parameter files, as bytes:
\*   Comment: "#\n"
\*   CommentUtf8: "#\u3042\n" in UTF-8
\*   CommentShiftJis: "#\u3042\n" in Shift_JIS
\*   CommentCp932: "#\u2460\n" in cp932: a character of the NEC row, which Shift_JIS lacks
\*   CommentBroken: "#", the lead byte 0x81 and a newline: no text in any of the three codecs
\*   Header: "MeshCode  dB(sec) dL(sec)  dH(m)\n"
\*   HeaderCapitals: "MeshCode DB(SEC) DL(SEC) DH(M)\n": the labels in capitals
\*   HeaderNoMeshCode: "Code dB(sec) dL(sec) dH(m)\n"
\*   Row60407305: "60407305   -0.5  1.25   0.0\n"
\*   Row60407400: "60407400   0.25  -1.5   0.5\n"
\*   Row60407355: "60407355   1.0  0.75   -0.25\n"
\*   Row60407450: "60407450   -2.5  2.0   1.5\n"
\*   Old60407305: "60407305   0.25  -1.0   0.5\n"
\*   Old60407400: "60407400   -0.75  0.5   0.0\n"
\*   Old60407355: "60407355   1.5  0.25   -0.5\n"
\*   Old60407450: "60407450   -1.25  2.5   1.0\n"
Line ==
    [ Comment |-> <<35, 10>>,
      CommentUtf8 |-> <<35, 227, 129, 130, 10>>,
      CommentShiftJis |-> <<35, 130, 160, 10>>,
      CommentCp932 |-> <<35, 135, 64, 10>>,
      CommentBroken |-> <<35, 129, 10>>,
      Header |-> <<77, 101, 115, 104, 67, 111, 100, 101, 32, 32, 100, 66, 40,
          115, 101, 99, 41, 32, 100, 76, 40, 115, 101, 99, 41, 32, 32, 100,
          72, 40, 109, 41, 10>>,
      HeaderCapitals |-> <<77, 101, 115, 104, 67, 111, 100, 101, 32, 68, 66,
          40, 83, 69, 67, 41, 32, 68, 76, 40, 83, 69, 67, 41, 32, 68, 72, 40,
          77, 41, 10>>,
      HeaderNoMeshCode |-> <<67, 111, 100, 101, 32, 100, 66, 40, 115, 101,
          99, 41, 32, 100, 76, 40, 115, 101, 99, 41, 32, 100, 72, 40, 109,
          41, 10>>,
      Row60407305 |-> <<54, 48, 52, 48, 55, 51, 48, 53, 32, 32, 32, 45, 48,
          46, 53, 32, 32, 49, 46, 50, 53, 32, 32, 32, 48, 46, 48, 10>>,
      Row60407400 |-> <<54, 48, 52, 48, 55, 52, 48, 48, 32, 32, 32, 48, 46,
          50, 53, 32, 32, 45, 49, 46, 53, 32, 32, 32, 48, 46, 53, 10>>,
      Row60407355 |-> <<54, 48, 52, 48, 55, 51, 53, 53, 32, 32, 32, 49, 46,
          48, 32, 32, 48, 46, 55, 53, 32, 32, 32, 45, 48, 46, 50, 53, 10>>,
      Row60407450 |-> <<54, 48, 52, 48, 55, 52, 53, 48, 32, 32, 32, 45, 50,
          46, 53, 32, 32, 50, 46, 48, 32, 32, 32, 49, 46, 53, 10>>,
      Old60407305 |-> <<54, 48, 52, 48, 55, 51, 48, 53, 32, 32, 32, 48, 46,
          50, 53, 32, 32, 45, 49, 46, 48, 32, 32, 32, 48, 46, 53, 10>>,
      Old60407400 |-> <<54, 48, 52, 48, 55, 52, 48, 48, 32, 32, 32, 45, 48,
          46, 55, 53, 32, 32, 48, 46, 53, 32, 32, 32, 48, 46, 48, 10>>,
      Old60407355 |-> <<54, 48, 52, 48, 55, 51, 53, 53, 32, 32, 32, 49, 46,
          53, 32, 32, 48, 46, 50, 53, 32, 32, 32, 45, 48, 46, 53, 10>>,
      Old60407450 |-> <<54, 48, 52, 48, 55, 52, 53, 48, 32, 32, 32, 45, 49,
          46, 50, 53, 32, 32, 50, 46, 53, 32, 32, 32, 49, 46, 48, 10>> ]

RECURSIVE Repeat(_, _)
Repeat(line, n) == IF n = 0 THEN <<>> ELSE line \o Repeat(line, n - 1)

Rows ==
    Line.Row60407305 \o Line.Row60407400 \o Line.Row60407355
        \o Line.Row60407450

\* a file of 15 lines of preamble, the first of them given, a header line
\* and the rows of the four corners of one cell
ParFile(first, header) == first \o Repeat(Line.Comment, 14) \o header \o Rows

-----------------------------------------------------------------------------
(* Calls of read_file on the files of a data directory.                    *)

\* what the file of 2024 can hold: a file of every first line and header,
\* or a file that ends within its preamble
Contents ==
    { ParFile(first, header) :
        first \in { Line.Comment, Line.CommentUtf8, Line.CommentShiftJis,
                    Line.CommentCp932, Line.CommentBroken },
        header \in {Line.Header, Line.HeaderCapitals, Line.HeaderNoMeshCode} }
    \cup {Repeat(Line.Comment, 12)}

\* the encodings in the reverse order
encodings_cp932_first == <<"cp932", "shift_jis", "utf-8">>

\* line 157
encodings == <<"utf-8", "shift_jis", "cp932">>

\* the files glob found (line 58) with what each holds
InitParams ==
    /\ InitFiles
    /\ files \in {<<File.y2023, File.y2024>>, <<File.y2023>>}
    /\ datetime_ \in { Datetime(2024, 3, 31, 0, 0), Datetime(2024, 4, 1, 0, 0),
                       Datetime(2025, 3, 31, 0, 0) }
    /\ \E content \in Contents :
           disk = [path \in {files[k] : k \in 1..Len(files)} |->
                      IF path = File.y2024 THEN content
                      ELSE ParFile(Line.Comment, Line.Header)]

\* line 128: the files open(file_path, encoding=encoding) has opened
open(fs, dt, encoding) ==
    With(get_file_path(fs, dt), LAMBDA file_path :
        IF IsRaise(file_path) THEN opened
        ELSE Append(opened, [path |-> file_path.path, encoding |-> encoding]))

\* a call of read_file(datetime_, encoding)
ReadFileCall(encoding) ==
    /\ pc = "files"
    /\ result' = read_file(files, disk, datetime_, encoding)
    /\ opened' = open(files, datetime_, encoding)
    /\ probe' = [encoding |-> encoding]
    /\ pc' = "returned"
    /\ UNCHANGED <<lon, lat, is_iterable, param_df, return_to_original, i,
                   previous_mesh_code, delta, lst, raised, calc_calls>>
    /\ UNCHANGED <<altitude, datetime_, files, disk, tried>>
    /\ UNCHANGED webVars

SpecRead ==
    InitParams /\ [][\E k \in 1..Len(encodings) : ReadFileCall(encodings[k])]_vars

ReadFileCalled == pc = "returned" /\ probe /= None

\* the file the call is about, as bytes, cut into lines at the newline bytes
ReadPath == get_file_path(files, datetime_)

ByteLines == readlines(disk[ReadPath.path])

Decodable == ~IsRaise(decode(disk[ReadPath.path], probe.encoding))

\* the values written on line n of the file
Cells(n) == clean_line(split(decode(ByteLines[n], probe.encoding).text))

\* the places of the label "MeshCode" on line 16
KeyColumns == {c \in 1..Len(Cells(16)) : Cells(16)[c] = PyStr(Label.MeshCode)}

\* a row or a header without the cell of the key column
Without(row, key) ==
    [c \in 1..(Len(row) - 1) |-> row[IF c < key THEN c ELSE c + 1]]

NewLabels == {PyStr(Label.delta_x), PyStr(Label.delta_y), PyStr(Label.delta_z)}

\* C16: read_file discards the first 15 lines of the file, takes line 16 as
\* the header row and every following line as one data row, and returns a
\* table indexed by the integer MeshCode column: for a file that decodes and
\* has a header line with a MeshCode label, the table has one row per line
\* after line 16, in the order of the file, its index holds the integers of
\* the MeshCode column and its cells the other values of the line, and its
\* columns are those of line 16 (under their new names where renamed).
C16_ReadFileTable ==
    (ReadFileCalled /\ ~IsRaise(ReadPath) /\ Decodable
        /\ Len(ByteLines) >= 16 /\ KeyColumns /= {}) =>
        /\ ~IsRaise(result)
        /\ Len(result.index) = Len(ByteLines) - 16
        /\ Len(result.data) = Len(ByteLines) - 16
        /\ \E key \in KeyColumns :
              /\ \A k \in 1..(Len(ByteLines) - 16) :
                    /\ result.index[k] = Cells(16 + k)[key]
                    /\ "int" \in DOMAIN result.index[k]
                    /\ result.data[k] = Without(Cells(16 + k), key)
              /\ Len(result.columns) = Len(Cells(16)) - 1
              /\ \A c \in 1..Len(result.columns) :
                    \/ result.columns[c] = Without(Cells(16), key)[c]
                    \/ result.columns[c] \in NewLabels

\* a file whose preamble starts with a line in UTF-8 was read as UTF-8: the
\* table has the four rows of the file under their mesh codes
C16_Witness ==
    /\ ReadFileCalled
    /\ probe.encoding = "utf-8"
    /\ ~IsRaise(ReadPath)
    /\ disk[ReadPath.path] = ParFile(Line.CommentUtf8, Line.Header)
    /\ ~IsRaise(result)
    /\ result.index = <<PyIntValue(60407305), PyIntValue(60407400),
                        PyIntValue(60407355), PyIntValue(60407450)>>
    /\ result.data[1] = <<Float(Rat(-1, 2)), Float(Rat(5, 4)), Float(Rat(0, 1))>>

\* C18: after read_file the correction columns are named delta_y (from the
\* dB column), delta_x (from the dL column) and delta_z (from the dH column),
\* however the file spells the labels of its header line.
C18_ColumnsRenamed ==
    (ReadFileCalled /\ ~IsRaise(result)) =>
        result.columns = <<PyStr(Label.delta_y), PyStr(Label.delta_x), PyStr(Label.delta_z)>>

-----------------------------------------------------------------------------
(* config.semidynamic_correction_file, one action per turn of its loop.     *)
(* pc = "loading" while a direct call runs, "reading" while the call made   *)
(* by SemiDynamic.__init__ (through _read_parameters) runs.                 *)

\* the table as _get_delta reads it (semidynamic.py, lines 208-215):
\* df.loc[key] by the integer of the index, and the three values of the row
\* under their labels
loc(df) ==
    With(df, LAMBDA d :
        [key \in {d.index[k].int : k \in 1..Len(d.index)} |->
            With(CHOOSE k \in 1..Len(d.index) : d.index[k].int = key, LAMBDA k :
                LET cell(label) ==
                        d.data[k][CHOOSE c \in 1..Len(d.columns) :
                                      d.columns[c] = PyStr(label)].float
                IN  Delta(cell(Label.delta_x), cell(Label.delta_y), cell(Label.delta_z)))])

\* lines 156-157
LoadCall ==
    /\ pc = "files"
    /\ pc' = "loading"
    /\ tried' = <<>>
    /\ UNCHANGED <<lon, lat, is_iterable, param_df, return_to_original, i,
                   previous_mesh_code, delta, lst, result, raised, calc_calls,
                   probe>>
    /\ UNCHANGED <<altitude, datetime_, files, disk, opened>>
    /\ UNCHANGED webVars

\* lines 159-165, one turn of the loop: the return of line 161, the
\* `continue` of line 163, or the ValueError of line 165
ReadFile ==
    /\ pc \in {"loading", "reading"}
    /\ Len(tried) < Len(encodings)
    /\ \E encoding \in {encodings[Len(tried) + 1]} :
       \E df \in {read_file(files, disk, datetime_, encoding)} :
           /\ opened' = open(files, datetime_, encoding)
           /\ IF IsRaise(df) /\ df.exception = "UnicodeDecodeError"
              THEN /\ tried' = Append(tried, encoding)
                   /\ UNCHANGED <<pc, result, raised, param_df>>
              ELSE IF IsRaise(df)
              THEN /\ raised' = Raise("ValueError", encodings)
                   /\ pc' = "raised"
                   /\ UNCHANGED <<tried, result, param_df>>
              ELSE IF pc = "loading"
              THEN /\ result' = df
                   /\ pc' = "returned"
                   /\ UNCHANGED <<tried, raised, param_df>>
              ELSE /\ param_df' = loc(df)
                   /\ pc' = "ready"
                   /\ UNCHANGED <<tried, raised, result>>
    /\ UNCHANGED <<lon, lat, is_iterable, return_to_original, i,
                   previous_mesh_code, delta, lst, calc_calls, probe>>
    /\ UNCHANGED <<altitude, datetime_, files, disk>>
    /\ UNCHANGED webVars

\* the loop ends without a return: the function falls off its end
LoadExhausted ==
    /\ pc \in {"loading", "reading"}
    /\ Len(tried) = Len(encodings)
    /\ IF pc = "loading"
       THEN /\ result' = None
            /\ pc' = "returned"
            /\ UNCHANGED param_df
       ELSE /\ param_df' = None
            /\ pc' = "ready"
            /\ UNCHANGED result
    /\ UNCHANGED <<lon, lat, is_iterable, return_to_original, i,
                   previous_mesh_code, delta, lst, raised, calc_calls, probe>>
    /\ UNCHANGED loadVars
    /\ UNCHANGED webVars

SpecLoad == InitParams /\ [][LoadCall \/ ReadFile \/ LoadExhausted]_vars

\* the order of the claim
ClaimedOrder == <<"utf-8", "shift_jis", "cp932">>

\* positions of ClaimedOrder under which the bytes of the file are text
DecodableUnder ==
    {k \in 1..3 : ~IsRaise(ReadPath)
                     /\ ~IsRaise(decode(disk[ReadPath.path], ClaimedOrder[k]))}

LoadFinished == pc \in {"returned", "raised"}

\* C14: when reading the parameter file fails with a decode error under
\* every encoding of the list, semidynamic_correction_file raises one error
\* that names every encoding attempted; it never returns normally without a
\* table.
C14_AllEncodingsFailRaises ==
    /\ (LoadFinished /\ ~IsRaise(ReadPath) /\ DecodableUnder = {}) =>
           /\ pc = "raised"
           /\ IsRaise(raised)
           /\ raised.arg = ClaimedOrder
    /\ pc = "returned" => result /= None

\* C15: semidynamic_correction_file tries the encodings in the order utf-8,
\* shift_jis, cp932; it returns the table parsed under the first encoding
\* that raises no decode error and opens the file under no later encoding; a
\* decode failure of an earlier encoding does not prevent the success of a
\* later one.
C15_FirstDecodableEncoding ==
    /\ Len(opened) <= 3
    /\ \A k \in 1..Len(opened) : opened[k].encoding = ClaimedOrder[k]
    /\ \A k \in 1..Len(opened) : \A j \in 1..(k - 1) : j \notin DecodableUnder
    /\ (LoadFinished /\ DecodableUnder /= {}) =>
           /\ Len(opened) \in DecodableUnder
           /\ LET df == read_file(files, disk, datetime_, ClaimedOrder[Len(opened)])
              IN  IF IsRaise(df) THEN pc = "raised"
                  ELSE pc = "returned" /\ result = df

\* a file whose preamble is text in cp932 only was opened three times, the
\* last time as cp932, and its table returned
C15_Witness ==
    /\ pc = "returned"
    /\ tried = <<"utf-8", "shift_jis">>
    /\ Len(opened) = 3
    /\ opened[3].encoding = "cp932"
    /\ ~IsRaise(ReadPath)
    /\ disk[ReadPath.path] = ParFile(Line.CommentCp932, Line.Header)
    /\ result /= None
    /\ result.index[1] = PyIntValue(60407305)

-----------------------------------------------------------------------------
(* SemiDynamic.__init__: the arguments as the caller passes them.  A float  *)
(* is the tagged value of Float, a list is [list |-> its items].           *)

List(items) == [list |-> items]

IsList(value) == "list" \in DOMAIN value

Max(S) == CHOOSE x \in S : \A y \in S : y <= x

\* utils.dimensional_count
RECURSIVE dimensional_count(_)
dimensional_count(value) ==
    IF IsList(value)
    THEN IF value.list = <<>> THEN 1
         ELSE 1 + Max({dimensional_count(value.list[k]) : k \in 1..Len(value.list)})
    ELSE 0

\* Decimal(f"{float(value)}"): [value |-> the Decimal], or the TypeError of
\* float() of a list
decimalize(value) ==
    IF IsList(value) THEN Raise("TypeError", "float")
    ELSE [value |-> value.float]

\* formatter.iterable_decimalize_formatter, lines 308-310
iterable_decimalize_formatter(values) ==
    IF dimensional_count(values) /= 1 THEN Raise("AssertionError", "one-dimensional")
    ELSE IF \E k \in 1..Len(values.list) : IsRaise(decimalize(values.list[k]))
    THEN Raise("TypeError", "float")
    ELSE [value |-> [k \in 1..Len(values.list) |-> decimalize(values.list[k]).value]]

\* lines 45-55: the attributes in the order the code converts them; the
\* first conversion that raises ends the call
converted_attributes(new_lon, new_lat, new_altitude, iterable) ==
    IF IsRaise(new_lon) THEN new_lon
    ELSE IF IsRaise(new_lat) THEN new_lat
    ELSE IF IsRaise(new_altitude) THEN new_altitude
    ELSE [lon |-> new_lon.value, lat |-> new_lat.value,
          altitude |-> new_altitude.value, is_iterable |-> iterable]

\* the conversion without the assert of line 44
convert_lon_lat_unchecked(lon_, lat_, altitude_) ==
    IF dimensional_count(lon_) = 0
    THEN converted_attributes(
             decimalize(lon_), decimalize(lat_),
             IF altitude_ = None THEN [value |-> None] ELSE decimalize(altitude_),
             FALSE)
    ELSE converted_attributes(
             iterable_decimalize_formatter(lon_),
             iterable_decimalize_formatter(lat_),
             IF altitude_ = None THEN [value |-> None]
             ELSE iterable_decimalize_formatter(altitude_),
             TRUE)

\* _convert_lon_lat, lines 42-55: the new attributes, or the exception
convert_lon_lat(lon_, lat_, altitude_) ==
    IF dimensional_count(lon_) /= dimensional_count(lat_)
    THEN Raise("AssertionError", "dimensionality")
    ELSE IF dimensional_count(lon_) = 0
    THEN converted_attributes(
             decimalize(lon_), decimalize(lat_),
             IF altitude_ = None THEN [value |-> None] ELSE decimalize(altitude_),
             FALSE)
    ELSE converted_attributes(
             iterable_decimalize_formatter(lon_),
             iterable_decimalize_formatter(lat_),
             IF altitude_ = None THEN [value |-> None]
             ELSE iterable_decimalize_formatter(altitude_),
             TRUE)

\* positions inside the cell whose corners the rows of the files describe,
\* and altitudes
Arg ==
    [ lon1 |-> Float(Rat(14045, 100)),
      lon2 |-> Float(Rat(14046, 100)),
      lon3 |-> Float(Rat(14047, 100)),
      lat1 |-> Float(Rat(406, 10)),
      lat2 |-> Float(Rat(4061, 100)),
      lat3 |-> Float(Rat(4062, 100)),
      alt1 |-> Float(Rat(100, 1)),
      alt2 |-> Float(Rat(1205, 10)) ]

\* a scalar, lists of no, one, two and three items, a list of lists and a
\* list with a list among its items
Shapes(a, b, c) ==
    { a, List(<<>>), List(<<a>>), List(<<a, b>>), List(<<a, b, c>>),
      List(<<List(<<a>>), List(<<b>>)>>), List(<<a, List(<<b>>)>>) }

\* SemiDynamic(lon, lat, datetime_, altitude) is called (lines 18-25); probe
\* keeps the arguments of the call
InitConstruct ==
    /\ lon \in Shapes(Arg.lon1, Arg.lon2, Arg.lon3)
    /\ lat \in Shapes(Arg.lat1, Arg.lat2, Arg.lat3)
    /\ altitude \in { None, Arg.alt1, List(<<Arg.alt1>>), List(<<Arg.alt1, Arg.alt2>>),
                      List(<<List(<<Arg.alt1>>)>>) }
    /\ datetime_ = Datetime(2024, 4, 1, 9, 500000)
    /\ probe = [lon |-> lon, lat |-> lat, altitude |-> altitude]
    /\ is_iterable = FALSE
    /\ param_df = Unbound
    /\ pc = "new"
    /\ return_to_original = Unbound
    /\ i = 0
    /\ previous_mesh_code = Unbound
    /\ delta = Unbound
    /\ lst = Unbound
    /\ result = Unbound
    /\ raised = None
    /\ calc_calls = <<>>
    /\ files = <<File.y2023, File.y2024>>
    /\ \E content \in { ParFile(Line.Comment, Line.Header),
                        ParFile(Line.CommentCp932, Line.Header),
                        ParFile(Line.CommentBroken, Line.Header) } :
           disk = [path \in {File.y2023, File.y2024} |->
                      IF path = File.y2024 THEN content
                      ELSE ParFile(Line.Comment, Line.Header)]
    /\ tried = <<>>
    /\ opened = <<>>
    /\ retries = 0 /\ response = None /\ idxs = <<>> /\ tasks = <<>>
    /\ results = <<>> /\ requests = 0 /\ failures = 0

\* lines 26-33: the attributes are set and converted; line 34 then calls
\* _read_parameters
Construct ==
    /\ pc = "new"
    /\ datetime_' = datetime_formatter(datetime_)
    /\ \E converted \in {convert_lon_lat(lon, lat, altitude)} :
           IF IsRaise(converted)
           THEN /\ raised' = converted
                /\ pc' = "raised"
                /\ UNCHANGED <<lon, lat, altitude, is_iterable>>
           ELSE /\ lon' = converted.lon
                /\ lat' = converted.lat
                /\ altitude' = converted.altitude
                /\ is_iterable' = converted.is_iterable
                /\ pc' = "reading"
                /\ UNCHANGED raised
    /\ UNCHANGED <<param_df, return_to_original, i, previous_mesh_code, delta,
                   lst, result, calc_calls, probe, files, disk, tried, opened>>
    /\ UNCHANGED webVars

NextConstruct ==
    \/ Construct
    \/ ReadFile
    \/ LoadExhausted
    \/ \E rto \in BOOLEAN : Correction2dSingle(rto)
    \/ \E rto \in BOOLEAN : Correction2dBegin(rto)
    \/ Correction2dIter
    \/ Correction2dZipFail
    \/ Correction2dReturn

SpecConstruct == InitConstruct /\ [][NextConstruct]_vars

\* the shapes of the arguments of the call
IsScalar(value) == value /= None /\ ~IsList(value)

IsBatch(value) ==
    IsList(value) /\ \A k \in 1..Len(value.list) : ~IsList(value.list[k])

UnequalBatches ==
    /\ IsBatch(probe.lon)
    /\ IsBatch(probe.lat)
    /\ \/ Len(probe.lon.list) /= Len(probe.lat.list)
       \/ /\ IsBatch(probe.altitude)
          /\ Len(probe.altitude.list) /= Len(probe.lon.list)

\* C19: supplying longitude/latitude (or altitude) batches of unequal
\* length makes the correction fail with a validation error before the
\* parameter file is opened or read: once the constructor has run, the call
\* has raised and no file has been opened.
C19_UnequalLengthsFailBeforeIO ==
    (UnequalBatches /\ pc /= "new") =>
        /\ pc = "raised"
        /\ IsRaise(raised)
        /\ opened = <<>>
        /\ param_df = Unbound

\* C20: constructing SemiDynamic with longitude/latitude input that is
\* neither a scalar nor a flat sequence, or whose longitude and latitude
\* have different nesting depths, fails before the parameter file is read:
\* the constructor raises AssertionError, no file has been opened and no
\* table is set.
C20_ShapeCheckedBeforeRead ==
    (pc /= "new"
        /\ ~(IsScalar(probe.lon) /\ IsScalar(probe.lat))
        /\ ~(IsBatch(probe.lon) /\ IsBatch(probe.lat))) =>
        /\ pc = "raised"
        /\ IsRaise(raised)
        /\ raised.exception = "AssertionError"
        /\ opened = <<>>
        /\ tried = <<>>
        /\ param_df = Unbound

\* the constructor was called with lists of lists, or with a scalar
\* longitude beside a list of latitudes, and raised without opening a file
C20_Witness ==
    /\ pc = "raised"
    /\ \/ /\ probe.lon = List(<<List(<<Arg.lon1>>), List(<<Arg.lon2>>)>>)
          /\ probe.lat = List(<<List(<<Arg.lat1>>), List(<<Arg.lat2>>)>>)
       \/ /\ probe.lon = Arg.lon1
          /\ probe.lat = List(<<Arg.lat1, Arg.lat2>>)
    /\ raised.exception = "AssertionError"
    /\ opened = <<>>
    /\ param_df = Unbound

-----------------------------------------------------------------------------
(* A correction followed by the correction of its result: the caller builds *)
(* a second SemiDynamic from the returned XY, for the same epoch.           *)

\* single points and a table, as after __init__; the positions are given in
\* seconds of arc: nodes of the grid of 225" x 150" and positions inside
\* its cells
InitRoundTrip ==
    /\ \E lon_sec \in {505575, 505620, 505665, 505710, 505845},
          lat_sec \in {146100, 146130, 146160, 146250} :
           /\ lon = Rat(lon_sec, 3600)
           /\ lat = Rat(lat_sec, 3600)
    /\ is_iterable = FALSE
    /\ param_df \in {TableA, TableB}
    /\ pc = "ready"
    /\ return_to_original = Unbound
    /\ i = 0
    /\ previous_mesh_code = Unbound
    /\ delta = Unbound
    /\ lst = Unbound
    /\ result = Unbound
    /\ raised = None
    /\ calc_calls = <<>>
    /\ probe = None
    /\ altitude = None
    /\ datetime_ = None
    /\ files = <<>>
    /\ disk = <<>>
    /\ tried = <<>>
    /\ opened = <<>>
    /\ retries = 0 /\ response = None /\ idxs = <<>> /\ tasks = <<>>
    /\ results = <<>> /\ requests = 0 /\ failures = 0

\* SemiDynamic(result.x, result.y, datetime_) for the epoch of the first
\* object: lines 26-34 with scalar arguments (lines 45-47) and the table of
\* the same file; probe keeps the first call
ConstructFromResult ==
    /\ pc = "returned"
    /\ probe = None
    /\ probe' = [lon |-> lon, lat |-> lat,
                 return_to_original |-> return_to_original, result |-> result]
    /\ lon' = result.x.float
    /\ lat' = result.y.float
    /\ pc' = "ready"
    /\ return_to_original' = Unbound
    /\ delta' = Unbound
    /\ result' = Unbound
    /\ calc_calls' = <<>>
    /\ UNCHANGED <<is_iterable, param_df, i, previous_mesh_code, lst, raised>>
    /\ UNCHANGED loadVars
    /\ UNCHANGED webVars

NextRoundTrip ==
    \/ \E rto \in BOOLEAN : Correction2dSingle(rto)
    \/ ConstructFromResult

SpecRoundTrip == InitRoundTrip /\ [][NextRoundTrip]_vars

\* the second call has returned
SecondReturned == pc = "returned" /\ probe /= None

\* C21: correcting a point with return_to_original = True and then
\* correcting the result with return_to_original = False against the same
\* table returns the original coordinate.
C21_RoundTrip ==
    (SecondReturned /\ probe.return_to_original = TRUE
        /\ return_to_original = FALSE) =>
        result = XY(Float(probe.lon), Float(probe.lat))

-----------------------------------------------------------------------------
(* _ChiriinDrawer.semidynamic_2d (src/drawer.py, lines 73-103): every call  *)
(* constructs a SemiDynamic object, calls its correction_2d and drops the   *)
(* object. probe is the log of the calls that have returned: the method,    *)
(* its arguments, the attributes of the object, the files opened since the  *)
(* object was constructed, and the value returned.                          *)

MaxLog == 2

\* no object; the file of the fiscal year 2023 holds the rows Old...
InitDrawer ==
    /\ lon = Unbound
    /\ lat = Unbound
    /\ altitude = Unbound
    /\ datetime_ = Unbound
    /\ is_iterable = Unbound
    /\ param_df = Unbound
    /\ pc = "idle"
    /\ return_to_original = Unbound
    /\ i = 0
    /\ previous_mesh_code = Unbound
    /\ delta = Unbound
    /\ lst = Unbound
    /\ result = Unbound
    /\ raised = None
    /\ calc_calls = <<>>
    /\ probe = <<>>
    /\ files = <<File.y2023, File.y2024>>
    /\ disk = [path \in {File.y2023, File.y2024} |->
                  IF path = File.y2024 THEN ParFile(Line.Comment, Line.Header)
                  ELSE Repeat(Line.Comment, 15) \o Line.Header
                           \o Line.Old60407305 \o Line.Old60407400
                           \o Line.Old60407355 \o Line.Old60407450]
    /\ tried = <<>>
    /\ opened = <<>>
    /\ retries = 0 /\ response = None /\ idxs = <<>> /\ tasks = <<>>
    /\ results = <<>> /\ requests = 0 /\ failures = 0

\* lines 98-102: SemiDynamic(lon=lon, lat=lat, datetime_=datetime_) is called
Semidynamic2dCall(lon_, lat_, dt) ==
    /\ pc = "idle"
    /\ Len(probe) < MaxLog
    /\ lon' = lon_
    /\ lat' = lat_
    /\ altitude' = None
    /\ datetime_' = dt
    /\ is_iterable' = FALSE
    /\ param_df' = Unbound
    /\ tried' = <<>>
    /\ opened' = <<>>
    /\ pc' = "new"
    /\ UNCHANGED <<return_to_original, i, previous_mesh_code, delta, lst,
                   result, raised, calc_calls, probe, files, disk>>
    /\ UNCHANGED webVars

\* the entry of the log for a call that has returned
Logged(method, args, value) ==
    [ method |-> method, args |-> args,
      self |-> [lon |-> lon, lat |-> lat, altitude |-> altitude,
                datetime_ |-> datetime_, is_iterable |-> is_iterable],
      opened |-> opened, result |-> value ]

\* semidynamic.py, lines 94-134: mesh_design is called on the object
MeshDesignMethod(p) ==
    /\ pc = "ready"
    /\ Len(probe) < MaxLog
    /\ probe' = Append(probe, Logged("mesh_design", p, mesh_design(p.lon, p.lat)))
    /\ UNCHANGED <<lon, lat, is_iterable, param_df, pc, return_to_original, i,
                   previous_mesh_code, delta, lst, result, raised, calc_calls>>
    /\ UNCHANGED loadVars
    /\ UNCHANGED webVars

\* semidynamic.py, lines 192-215: _get_delta is called on the object
GetDeltaMethod(mesh_code) ==
    /\ pc = "ready"
    /\ Len(probe) < MaxLog
    /\ probe' = Append(probe, Logged("_get_delta", mesh_code, get_delta(mesh_code)))
    /\ UNCHANGED <<lon, lat, is_iterable, param_df, pc, return_to_original, i,
                   previous_mesh_code, delta, lst, result, raised, calc_calls>>
    /\ UNCHANGED loadVars
    /\ UNCHANGED webVars

\* semidynamic.py, lines 272-301: correction_2d has returned to a caller
\* that keeps the object
Correction2dReturned ==
    /\ pc = "returned"
    /\ Len(probe) < MaxLog
    /\ probe' = Append(probe, Logged("correction_2d", return_to_original, result))
    /\ pc' = "ready"
    /\ return_to_original' = Unbound
    /\ i' = 0
    /\ previous_mesh_code' = Unbound
    /\ delta' = Unbound
    /\ lst' = Unbound
    /\ result' = Unbound
    /\ calc_calls' = <<>>
    /\ UNCHANGED <<lon, lat, is_iterable, param_df, raised>>
    /\ UNCHANGED loadVars
    /\ UNCHANGED webVars

\* src/drawer.py, line 103: semidynamic_2d returns what correction_2d has
\* returned; the object is dropped
Semidynamic2dReturn ==
    /\ pc = "returned"
    /\ Len(probe) < MaxLog
    /\ probe' = Append(probe, Logged("semidynamic_2d", return_to_original, result))
    /\ pc' = "idle"
    /\ lon' = Unbound
    /\ lat' = Unbound
    /\ altitude' = Unbound
    /\ datetime_' = Unbound
    /\ is_iterable' = Unbound
    /\ param_df' = Unbound
    /\ return_to_original' = Unbound
    /\ i' = 0
    /\ previous_mesh_code' = Unbound
    /\ delta' = Unbound
    /\ lst' = Unbound
    /\ result' = Unbound
    /\ calc_calls' = <<>>
    /\ UNCHANGED <<raised, files, disk, tried, opened>>
    /\ UNCHANGED webVars

\* the epochs are of the fiscal years 2023 (two of them) and 2024
NextDrawer ==
    \/ \E dt \in { Datetime(2023, 5, 1, 9, 0), Datetime(2024, 3, 31, 23, 500000),
                  Datetime(2024, 4, 1, 9, 500000) } :
           \/ Semidynamic2dCall(Arg.lon1, Arg.lat1, dt)
           \/ Semidynamic2dCall(List(<<Arg.lon1, Arg.lon2>>),
                                List(<<Arg.lat1, Arg.lat2>>), dt)
    \/ Construct
    \/ ReadFile
    \/ MeshDesignMethod(Pt(Rat(14045, 100), Rat(406, 10)))
    \/ GetDeltaMethod(PyIntValue(60407305))
    \/ \E rto \in BOOLEAN : Correction2dSingle(rto)
    \/ \E rto \in BOOLEAN : Correction2dBegin(rto)
    \/ Correction2dIter
    \/ Correction2dReturn
    \/ Correction2dReturned
    \/ Semidynamic2dReturn

SpecDrawer == InitDrawer /\ [][NextDrawer]_vars

\* the object is constructed and has not been dropped
Constructed == pc \in {"ready", "loop", "returned"}

\* the fiscal year of an epoch: April to March
EpochYear(dt) == IF dt.month \in 4..12 THEN dt.year ELSE dt.year - 1

\* the values of the rows of the files of the two fiscal years
YearTable(year) ==
    IF year = 2024
    THEN [code \in {60407305, 60407400, 60407355, 60407450} |->
             CASE code = 60407305 -> Delta(Rat(5, 4), Rat(-1, 2), Rat(0, 1))
               [] code = 60407400 -> Delta(Rat(-3, 2), Rat(1, 4), Rat(1, 2))
               [] code = 60407355 -> Delta(Rat(3, 4), Rat(1, 1), Rat(-1, 4))
               [] code = 60407450 -> Delta(Rat(2, 1), Rat(-5, 2), Rat(3, 2))]
    ELSE [code \in {60407305, 60407400, 60407355, 60407450} |->
             CASE code = 60407305 -> Delta(Rat(-1, 1), Rat(1, 4), Rat(1, 2))
               [] code = 60407400 -> Delta(Rat(1, 2), Rat(-3, 4), Rat(0, 1))
               [] code = 60407355 -> Delta(Rat(1, 4), Rat(3, 2), Rat(-1, 2))
               [] code = 60407450 -> Delta(Rat(5, 2), Rat(-5, 4), Rat(1, 1))]

\* two entries of the log for the same call on an object of the same
\* attributes
SameCall(j, k) ==
    /\ j < k
    /\ probe[j].method = probe[k].method
    /\ probe[j].method /= "semidynamic_2d"
    /\ probe[j].self.is_iterable = probe[k].self.is_iterable
    /\ probe[j].self = probe[k].self
    /\ probe[j].args = probe[k].args

\* C22: after a SemiDynamic object is constructed, mesh_design, _get_delta,
\* _calc_correction_2d_delta and correction_2d leave the parameter table,
\* the stored lon, lat and altitude and the epoch unchanged, and the table
\* held is the one of the fiscal year of the epoch of the object; two calls
\* of a method with the same arguments return equal values (mesh_design the
\* same corners and mesh codes, correction_2d the same result).
C22_MethodsLeaveObject ==
    /\ [](Constructed => param_df = YearTable(EpochYear(datetime_)))
    /\ [](\A j, k \in 1..Len(probe) :
              SameCall(j, k) => probe[j].result = probe[k].result)
    /\ [][(Constructed /\ pc' /= "idle") =>
              /\ param_df' = param_df
              /\ lon' = lon
              /\ lat' = lat
              /\ altitude' = altitude
              /\ datetime_' = datetime_]_vars

\* correction_2d has been called twice on one object, of an epoch in March
C22_Witness ==
    /\ Constructed
    /\ datetime_.month = 3
    /\ \E j, k \in 1..Len(probe) :
           SameCall(j, k) /\ probe[j].method = "correction_2d"

\* C23: the parameter file is parsed only when the fiscal year of the epoch
\* requested is not the one of a table loaded before: a further request of
\* semidynamic_2d for an epoch of the same fiscal year opens no file.
C23_ParsedOncePerFiscalYear ==
    \A j, k \in 1..Len(probe) :
        (/\ j < k
         /\ probe[j].method = "semidynamic_2d"
         /\ probe[k].method = "semidynamic_2d"
         /\ EpochYear(probe[j].self.datetime_) = EpochYear(probe[k].self.datetime_))
            => probe[k].opened = <<>>

-----------------------------------------------------------------------------
\* the cells of the table read_file has returned
TableCells ==
    {result.data[k][c] : k \in 1..Len(result.data), c \in 1..Len(result.columns)}

\* C24: every value that enters the delta computation is an exact decimal
\* that never passed through a binary float: no cell of the table that
\* read_file returns, from which _get_delta takes the corner vectors, is a
\* float.
C24_NoBinaryFloat ==
    (ReadFileCalled /\ ~IsRaise(result)) =>
        \A cell \in TableCells : "float" \notin DOMAIN cell

-----------------------------------------------------------------------------
(* Calls of datetime_formatter. The strings are put together from a date,   *)
(* a separator, a time of day and an offset.                               *)

\* the parts of the strings:
\*   Date: "2023-11-16"
\*   DateSlashes: "2023/11/16"
\*   DateFebruary30: "2023-02-30"
\*   DateShort: "2023-1-6"
\*   T: "T"
\*   Blank: " "
\*   SmallT: "t"
\*   TimeFraction: "11:06:21.700"
\*   TimeSeconds: "11:06:21"
\*   TimeMinutes: "11:06"
\*   Time24: "24:00"
\*   TimeSecond61: "11:06:61"
\*   TimeBasic: "110621"
\*   Nothing: ""
\*   Offset: "+09:00"
\*   OffsetPlus: "++0900"
\*   Z: "Z"
\*   Invalid: "invalid datetime string"
Part ==
    [ Date |-> <<50, 48, 50, 51, 45, 49, 49, 45, 49, 54>>,
      DateSlashes |-> <<50, 48, 50, 51, 47, 49, 49, 47, 49, 54>>,
      DateFebruary30 |-> <<50, 48, 50, 51, 45, 48, 50, 45, 51, 48>>,
      DateShort |-> <<50, 48, 50, 51, 45, 49, 45, 54>>,
      T |-> <<84>>,
      Blank |-> <<32>>,
      SmallT |-> <<116>>,
      TimeFraction |-> <<49, 49, 58, 48, 54, 58, 50, 49, 46, 55, 48,
          48>>,
      TimeSeconds |-> <<49, 49, 58, 48, 54, 58, 50, 49>>,
      TimeMinutes |-> <<49, 49, 58, 48, 54>>,
      Time24 |-> <<50, 52, 58, 48, 48>>,
      TimeSecond61 |-> <<49, 49, 58, 48, 54, 58, 54, 49>>,
      TimeBasic |-> <<49, 49, 48, 54, 50, 49>>,
      Nothing |-> <<>>,
      Offset |-> <<43, 48, 57, 58, 48, 48>>,
      OffsetPlus |-> <<43, 43, 48, 57, 48, 48>>,
      Z |-> <<90>>,
      Invalid |-> <<105, 110, 118, 97, 108, 105, 100, 32, 100, 97, 116,
          101, 116, 105, 109, 101, 32, 115, 116, 114, 105, 110, 103>> ]

\* datetime_formatter(probe) is about to be called; the arguments are
\* datetime objects, strings, and values of other types
InitFormatter ==
    /\ probe \in
        { Datetime(2023, 11, 16, 11, 700000), Datetime(2024, 3, 31, 23, 0) }
        \cup { PyStr(date) :
                 date \in {Part.Date, Part.DateSlashes, Part.DateFebruary30, Part.DateShort} }
        \cup { PyStr(date \o sep \o time \o offset) :
                 date \in {Part.Date, Part.DateSlashes, Part.DateFebruary30, Part.DateShort},
                 sep \in {Part.T, Part.Blank, Part.SmallT},
                 time \in {Part.TimeFraction, Part.TimeSeconds, Part.TimeMinutes,
                           Part.Time24, Part.TimeSecond61, Part.TimeBasic},
                 offset \in {Part.Nothing, Part.Offset, Part.OffsetPlus, Part.Z} }
        \cup { PyStr(Part.Invalid), PyStr(Part.Nothing) }
        \cup { PyIntValue(12345), Float(Rat(1, 2)), List(<<>>), None }
    /\ pc = "call"
    /\ lon = Unbound
    /\ lat = Unbound
    /\ altitude = Unbound
    /\ datetime_ = Unbound
    /\ is_iterable = Unbound
    /\ param_df = Unbound
    /\ return_to_original = Unbound
    /\ i = 0
    /\ previous_mesh_code = Unbound
    /\ delta = Unbound
    /\ lst = Unbound
    /\ result = Unbound
    /\ raised = None
    /\ calc_calls = <<>>
    /\ files = <<>>
    /\ disk = <<>>
    /\ tried = <<>>
    /\ opened = <<>>
    /\ retries = 0 /\ response = None /\ idxs = <<>> /\ tasks = <<>>
    /\ results = <<>> /\ requests = 0 /\ failures = 0

\* formatter.py, lines 8-42: the call returns or raises
DatetimeFormatterCall ==
    /\ pc = "call"
    /\ \E value \in {datetime_formatter(probe)} :
           IF IsRaise(value)
           THEN /\ raised' = value
                /\ pc' = "raised"
                /\ UNCHANGED result
           ELSE /\ result' = value
                /\ pc' = "returned"
                /\ UNCHANGED raised
    /\ UNCHANGED <<lon, lat, is_iterable, param_df, return_to_original, i,
                   previous_mesh_code, delta, lst, calc_calls, probe>>
    /\ UNCHANGED loadVars
    /\ UNCHANGED webVars

SpecFormatter == InitFormatter /\ [][DatetimeFormatterCall]_vars

\* the strings of the tests that are in a supported format
\* (test_formatter.py, lines 16-21)
SupportedStrings ==
    { PyStr(Part.Date \o Part.T \o Part.TimeFraction \o Part.Offset),
      PyStr(Part.Date \o Part.T \o Part.TimeFraction),
      PyStr(Part.Date \o Part.Blank \o Part.TimeSeconds),
      PyStr(Part.Date),
      PyStr(Part.DateSlashes \o Part.Blank \o Part.TimeSeconds),
      PyStr(Part.DateSlashes \o Part.Blank \o Part.TimeMinutes) }

\* strings in no supported format: no date and time at all, February 30, a
\* second of 61, or an hour of 24
UnsupportedStrings ==
    { PyStr(Part.Invalid), PyStr(Part.Nothing) }
    \cup { PyStr(Part.DateFebruary30 \o sep \o time) :
             sep \in {Part.T, Part.Blank}, time \in {Part.TimeSeconds, Part.TimeMinutes} }
    \cup { PyStr(Part.Date \o sep \o time) :
             sep \in {Part.T, Part.Blank}, time \in {Part.TimeSecond61, Part.Time24} }

FormatterCalled == pc \in {"returned", "raised"}

\* C25: datetime_formatter returns, for a datetime object or a str in a
\* supported format, a datetime whose microsecond is 0; it raises ValueError
\* for a str in no supported format and TypeError for a value of any other
\* type.
C25_DatetimeFormatter ==
    FormatterCalled =>
        /\ "year" \in DOMAIN probe =>
               /\ pc = "returned"
               /\ result = [probe EXCEPT !.microsecond = 0]
        /\ "str" \in DOMAIN probe =>
               \/ /\ pc = "returned"
                  /\ "year" \in DOMAIN result
                  /\ result.microsecond = 0
               \/ /\ pc = "raised"
                  /\ raised.exception = "ValueError"
        /\ probe \in SupportedStrings => pc = "returned"
        /\ probe \in UnsupportedStrings => pc = "raised"
        /\ ("year" \notin DOMAIN probe /\ "str" \notin DOMAIN probe) =>
               /\ pc = "raised"
               /\ raised.exception = "TypeError"

\* the str "2023-11-16T11:06:21.700", whose fraction of a second is 700000
\* microseconds, has been formatted
C25_Witness ==
    /\ pc = "returned"
    /\ probe = PyStr(Part.Date \o Part.T \o Part.TimeFraction)
    /\ result = [year |-> 2023, month |-> 11, day |-> 16, hour |-> 11,
                 minute |-> 6, second |-> 21, microsecond |-> 0]


-----------------------------------------------------------------------------
(* tile.py: download_tile_array.  The URL is kept as the tile address that  *)
(* ElevationTileUrl.dem_10b wrote into it; a response is the record of its  *)
(* status code and its content, or the exception requests.get raised.  The  *)
(* contents of the model hold numbers that float32 keeps exactly.           *)

max_retries == 5

\* lines 43-46: the rows of floats the content writes, or the exception of
\* decode or of float
tile_data(response_content) ==
    LET RECURSIVE replace(_)
        \* replace("e", "-9999")
        replace(t) ==
            IF t = <<>> THEN <<>>
            ELSE (IF Head(t) = 101 THEN <<MINUS, 57, 57, 57, 57>> ELSE <<Head(t)>>)
                 \o replace(Tail(t))
        splitlines(t) ==
            With(readlines(t), LAMBDA lines :
                [m \in 1..Len(lines) |-> SelectSeq(lines[m], LAMBDA c : c /= NL)])
        \* line.split(",")
        split_comma(t) ==
            With(Append(SelectSeq(Positions(t), LAMBDA k : t[k] = 44), Len(t) + 1),
                 LAMBDA seps :
                [m \in 1..Len(seps) |->
                    SubSeq(t, IF m = 1 THEN 1 ELSE seps[m - 1] + 1, seps[m] - 1)])
        \* float(v): a str without a point writes the float of its int
        to_float(v) ==
            IF In(DOT, v) THEN float(v)
            ELSE With(int(v), LAMBDA k :
                     IF IsRaise(k) THEN k ELSE Float(Int2Rat(k.int)))
    IN  With(utf8_decode(response_content), LAMBDA tile_txt :
            IF IsRaise(tile_txt) THEN tile_txt
            ELSE With(splitlines(replace(tile_txt.text)), LAMBDA lines :
                 With([m \in 1..Len(lines) |->
                          With(split_comma(lines[m]), LAMBDA line :
                              [k \in 1..Len(line) |-> to_float(line[k])])],
                      LAMBDA rows :
                     IF \E m \in 1..Len(rows) : \E k \in 1..Len(rows[m]) :
                            IsRaise(rows[m][k])
                     THEN Raise("ValueError", tile_txt.text)
                     ELSE [rows |-> rows])))

\* download_tile_array(url) is called (lines 25-26)
InitTile ==
    /\ probe \in { [url |-> [z |-> 14, x |-> 14624, y |-> 6017]],
                   [url |-> [z |-> 10, x |-> 14624, y |-> 6017]] }
    /\ pc = "request"
    /\ retries = 0
    /\ response = None
    /\ result = Unbound
    /\ raised = None
    /\ lon = Unbound
    /\ lat = Unbound
    /\ is_iterable = FALSE
    /\ param_df = Unbound
    /\ return_to_original = Unbound
    /\ i = 0
    /\ previous_mesh_code = Unbound
    /\ delta = Unbound
    /\ lst = Unbound
    /\ calc_calls = <<>>
    /\ altitude = Unbound
    /\ datetime_ = Unbound
    /\ files = <<>>
    /\ disk = <<>>
    /\ tried = <<>>
    /\ opened = <<>>
    /\ idxs = <<>> /\ tasks = <<>> /\ results = <<>>
    /\ requests = 0 /\ failures = 0

\* one turn of the loop of lines 27-51, up to the sleep, the return (lines
\* 52-54) or the raise (lines 28-32).  The contents the server sends:
\*   "1.5,e\n2.25,3\n", "x,1\n" and the byte 0xFF
TileGet ==
    /\ pc = "request"
    /\ IF max_retries < retries
       THEN /\ raised' = Raise("Exception", probe.url)
            /\ pc' = "raised"
            /\ UNCHANGED <<retries, response, result>>
       ELSE \E r \in { Raise("ConnectionError", probe.url),
                       [status_code |-> 404, content |-> <<>>],
                       [status_code |-> 503, content |-> <<>>],
                       [status_code |-> 200,
                        content |-> <<49, 46, 53, 44, 101, 10, 50, 46, 50, 53, 44, 51, 10>>],
                       [status_code |-> 200, content |-> <<120, 44, 49, 10>>],
                       [status_code |-> 200, content |-> <<255>>] } :
                /\ response' = r
                /\ IF IsRaise(r)
                   THEN /\ pc' = "sleep"
                        /\ UNCHANGED <<retries, result, raised>>
                   ELSE IF r.status_code /= 200
                   THEN /\ retries' = retries + 1
                        /\ pc' = "sleep"
                        /\ UNCHANGED <<result, raised>>
                   ELSE \E data \in {tile_data(r.content)} :
                        IF IsRaise(data)
                        THEN /\ pc' = "sleep"
                             /\ UNCHANGED <<retries, result, raised>>
                        ELSE /\ result' =
                                  [m \in 1..Len(data.rows) |->
                                      [k \in 1..Len(data.rows[m]) |->
                                          IF data.rows[m][k] = Float(Int2Rat(-9999))
                                          THEN [nan |-> TRUE]
                                          ELSE [float32 |-> data.rows[m][k].float]]]
                             /\ pc' = "returned"
                             /\ UNCHANGED <<retries, raised>>
    /\ UNCHANGED <<lon, lat, is_iterable, param_df, return_to_original, i,
                   previous_mesh_code, delta, lst, calc_calls, probe>>
    /\ UNCHANGED loadVars
    /\ UNCHANGED <<idxs, tasks, results, requests, failures>>

\* time.sleep(0.5) of line 37 or time.sleep(1) of line 49 returns: the loop
\* goes on with line 28
TileSleep ==
    /\ pc = "sleep"
    /\ pc' = "request"
    /\ UNCHANGED <<lon, lat, is_iterable, param_df, return_to_original, i,
                   previous_mesh_code, delta, lst, result, raised, calc_calls,
                   probe>>
    /\ UNCHANGED loadVars
    /\ UNCHANGED webVars

NextTile ==
    \/ TileGet
    \/ TileSleep

\* the interpreter goes on running the call: every step that can be taken
\* is taken in the end
FairTile == InitTile /\ [][NextTile]_vars /\ WF_vars(NextTile)

Finished == pc \in {"returned", "raised"}

\* C26: download_tile_array always terminates: whatever the requests bring
\* back (responses other than 200, exceptions of the request or of the
\* parsing), the call ends: it raises "Max retries exceeded" after a bounded
\* number of failed attempts, or it returns the tile array.
C26_Terminates == <>Finished


-----------------------------------------------------------------------------
(* web.py: fetch_elevation_from_web.  The coroutines of one gather share    *)
(* nothing but the session: the model runs them one after the other in the  *)
(* order of the list, and the requests sent between two sleeps do not       *)
(* depend on that order.  What a request brings back is the JSON object of  *)
(* the answer, or the aiohttp.ClientError it raised.                        *)

MaxPoints == 21

MaxFailures == 6

max_retry == 5

\* len(tasks) == 10 of line 81
gather_size == 10

\* lines 43-58 with the loop left only after a turn numbered max_retry
fetch_elevation_one_turn_more(index, data, turns) ==
    IF ~IsRaise(data) /\ "ErrMsg" \notin DOMAIN data
    THEN [returns |-> [index |-> index, elevation |-> data.elevation]]
    ELSE IF turns = max_retry
    THEN [returns |-> [index |-> index, elevation |-> None]]
    ELSE [continues |-> TRUE]

\* lines 43-58: what the coroutine of point index does with the outcome data
\* of its request after turns unsuccessful turns of the loop: it returns
\* {index: elevation}, goes on with the next turn, or leaves the loop and
\* returns {index: None}
fetch_elevation(index, data, turns) ==
    IF ~IsRaise(data) /\ "ErrMsg" \notin DOMAIN data
    THEN [returns |-> [index |-> index, elevation |-> data.elevation]]
    ELSE IF turns + 1 = max_retry
    THEN [returns |-> [index |-> index, elevation |-> None]]
    ELSE [continues |-> TRUE]

\* fetch_elevation_from_web(lons, lats) is called with lists of up to
\* MaxPoints points (lines 106-107, 75-77)
InitWeb ==
    /\ \E n \in 0..MaxPoints : idxs = [k \in 1..n |-> k - 1]
    /\ pc = "main"
    /\ tasks = <<>>
    /\ results = <<>>
    /\ retries = 0
    /\ response = None
    /\ requests = 0
    /\ failures = 0
    /\ result = Unbound
    /\ raised = None
    /\ probe = <<>>
    /\ lon = Unbound
    /\ lat = Unbound
    /\ is_iterable = FALSE
    /\ param_df = Unbound
    /\ return_to_original = Unbound
    /\ i = 0
    /\ previous_mesh_code = Unbound
    /\ delta = Unbound
    /\ lst = Unbound
    /\ calc_calls = <<>>
    /\ altitude = Unbound
    /\ datetime_ = Unbound
    /\ files = <<>>
    /\ disk = <<>>
    /\ tried = <<>>
    /\ opened = <<>>

\* one step of the loop of lines 78-81: the coroutine of the next point is
\* appended, and the tenth starts the gather of line 82; after the last
\* point the rest is gathered (lines 85-86), or the call returns (line 87)
\* and fetch_elevation_from_web sorts the elevations by index (lines 108-113)
FetchElevationMain ==
    /\ pc = "main"
    /\ \E position \in {Len(results) + Len(tasks)} :
           IF position < Len(idxs)
           THEN /\ tasks' = Append(tasks, [index |-> idxs[position + 1]])
                /\ pc' = IF Len(tasks) + 1 = gather_size THEN "gather" ELSE "main"
                /\ UNCHANGED result
           ELSE IF tasks /= <<>>
           THEN /\ pc' = "gather_rest"
                /\ UNCHANGED <<tasks, result>>
           ELSE /\ pc' = "returned"
                /\ result' =
                       [k \in 1..Len(results) |->
                           (CHOOSE resp \in {results[m] : m \in 1..Len(results)} :
                               Cardinality({m \in 1..Len(results) :
                                               results[m].index < resp.index}) = k - 1
                           ).elevation]
                /\ UNCHANGED tasks
    /\ UNCHANGED <<retries, response, idxs, results, requests, failures>>
    /\ UNCHANGED <<lon, lat, is_iterable, param_df, return_to_original, i,
                   previous_mesh_code, delta, lst, raised, calc_calls, probe>>
    /\ UNCHANGED loadVars

\* one turn of the loop of lines 43-57 in the first coroutine of the gather
\* that has not returned: a request is sent, and the server answers with the
\* elevation it holds for the point, answers with an ErrMsg, or the request
\* fails with a ClientError (at most MaxFailures requests of a run fail).  A
\* coroutine that returns hands its dictionary to results (lines 82, 86);
\* after the last one of line 82, tasks is empty (line 83) and the driver
\* sleeps (line 84)
FetchElevation ==
    /\ pc \in {"gather", "gather_rest"}
    /\ tasks /= <<>>
    /\ \E data \in { [elevation |-> Float(Rat(841 + Head(tasks).index, 10))],
                     [ErrMsg |-> TRUE],
                     Raise("ClientError", Head(tasks).index) } :
           /\ (IsRaise(data) \/ "ErrMsg" \in DOMAIN data) => failures < MaxFailures
           /\ response' = data
           /\ requests' = requests + 1
           /\ failures' = IF IsRaise(data) \/ "ErrMsg" \in DOMAIN data
                          THEN failures + 1 ELSE failures
           /\ \E turn \in {fetch_elevation(Head(tasks).index, data, retries)} :
                  IF "returns" \in DOMAIN turn
                  THEN /\ results' = Append(results, turn.returns)
                       /\ tasks' = Tail(tasks)
                       /\ retries' = 0
                       /\ pc' = IF Tail(tasks) /= <<>> THEN pc
                                ELSE IF pc = "gather" THEN "sleep" ELSE "main"
                  ELSE /\ retries' = retries + 1
                       /\ UNCHANGED <<results, tasks, pc>>
    /\ UNCHANGED idxs
    /\ UNCHANGED <<lon, lat, is_iterable, param_df, return_to_original, i,
                   previous_mesh_code, delta, lst, result, raised, calc_calls,
                   probe>>
    /\ UNCHANGED loadVars

\* time.sleep(time_sleep) of line 84 returns: the loop of line 78 goes on
Sleep ==
    /\ pc = "sleep"
    /\ pc' = "main"
    /\ requests' = 0
    /\ UNCHANGED <<retries, response, idxs, tasks, results, failures>>
    /\ UNCHANGED <<lon, lat, is_iterable, param_df, return_to_original, i,
                   previous_mesh_code, delta, lst, result, raised, calc_calls,
                   probe>>
    /\ UNCHANGED loadVars

SpecWeb == InitWeb /\ [][FetchElevationMain \/ FetchElevation \/ Sleep]_vars


\* the answer carries an elevation and no ErrMsg
Answered(data) == ~IsRaise(data) /\ "ErrMsg" \notin DOMAIN data

\* C27: fetch_elevation sends at most max_retry requests for one point: every
\* request is sent after fewer than max_retry unsuccessful turns, and a point
\* whose coroutine has returned is never asked for again.  The first answer
\* without ErrMsg ends the coroutine, which returns {index: its elevation};
\* an ErrMsg or a client error in the turn numbered max_retry ends it with
\* {index: None}, and in an earlier turn leads to the next request for the
\* same point.  fetch_elevation_from_web returns one value per point, in the
\* order of the points.
C27_FetchElevation ==
    /\ [](/\ \A j, k \in 1..Len(results) :
                j /= k => results[j].index /= results[k].index
          /\ \A j \in 1..Len(results) : \A k \in 1..Len(tasks) :
                results[j].index /= tasks[k].index)
    /\ [](pc = "returned" =>
            /\ Len(result) = Len(idxs)
            /\ \A k \in 1..Len(idxs) :
                   \/ result[k] = None
                   \/ result[k] = Float(Rat(841 + idxs[k], 10)))
    /\ [][requests' = requests + 1 =>
            /\ retries < max_retry
            /\ Answered(response') =>
                   /\ results' = Append(results, [index |-> Head(tasks).index,
                                                  elevation |-> response'.elevation])
                   /\ tasks' = Tail(tasks)
            /\ (~Answered(response') /\ retries + 1 = max_retry) =>
                   /\ results' = Append(results, [index |-> Head(tasks).index,
                                                  elevation |-> None])
                   /\ tasks' = Tail(tasks)
            /\ (~Answered(response') /\ retries + 1 < max_retry) =>
                   /\ retries' = retries + 1
                   /\ tasks' = tasks
                   /\ results' = results]_vars

\* the call has returned; one point was given up after max_retry failed
\* requests and another point got its elevation after a failed request
C27_Witness ==
    /\ pc = "returned"
    /\ failures > max_retry
    /\ \E j, k \in 1..Len(result) :
           /\ result[j] = None
           /\ result[k] = Float(Rat(841 + idxs[k], 10))


\* C28: the drivers of the web API keep to the limit of 10 requests per 10
\* seconds: when a sleep of time_sleep seconds begins after an earlier one,
\* at most 10 HTTP requests, retries included, have been sent since that
\* earlier sleep ended.
C28_TenRequestsBetweenSleeps ==
    (pc = "sleep" /\ Len(results) > gather_size) => requests <= 10


\* what correction_2d returns for batch point k as a single point (lines
\* 283-286), with the table and the direction of the running call; where
\* the single call raises, what _calc_correction_2d_delta brought back
SinglePoint(k) ==
    With(calc_correction_2d_delta(lon[k], lat[k], return_to_original), LAMBDA d :
        IF IsRaise(d) \/ d = FalseDict THEN d
        ELSE corrected(lon[k], lat[k], d))

\* C30: at every batch position where correction_2d recomputes the delta
\* (the first point, or a point whose standard mesh code differs from that
\* of the point before it) the entry of the batch result equals what
\* correction_2d returns for that point alone, with the same table and the
\* same direction.
C30_RecomputedEqualsSingle ==
    (is_iterable /\ pc \in {"loop", "returned", "raised"}) =>
        \A k \in 1..Len(lst) :
            (k = 1 \/ CodeAt(k) /= CodeAt(k - 1)) => lst[k] = SinglePoint(k)

\* a returned batch whose second point lies in another standard mesh than
\* the first: the delta was computed for both, and both entries are the
\* single-point results
C30_Witness ==
    /\ is_iterable
    /\ pc = "returned"
    /\ Len(result) >= 2
    /\ CodeAt(2) /= CodeAt(1)
    /\ calc_calls[2] = 2
    /\ result[2] = SinglePoint(2)
    /\ result[2] /= result[1]


-----------------------------------------------------------------------------
(* correction_2d over batches of points that lie close to the edge of a     *)
(* 225" x 150" cell.                                                        *)

\* SemiDynamic was constructed with a batch of up to MaxBatch points:
\* (140.45, 40.6) and (140.455, 40.6) lie in one standard mesh well inside a
\* cell; (140.4999, 40.6) and (140.49999, 40.6) lie in one standard mesh,
\* 0.36" and 0.036" west of the cell edge at 505800"; (140.45, 40.6249) and
\* (140.45, 40.62499) lie in one standard mesh, 0.36" and 0.036" south of
\* the cell edge at 146250"
InitBoundary ==
    /\ \E n \in 0..MaxBatch :
           \E pts \in [1..n -> { Pt(Rat(14045, 100), Rat(406, 10)),
                                 Pt(Rat(140455, 1000), Rat(406, 10)),
                                 Pt(Rat(1404999, 10000), Rat(406, 10)),
                                 Pt(Rat(14049999, 100000), Rat(406, 10)),
                                 Pt(Rat(14045, 100), Rat(406249, 10000)),
                                 Pt(Rat(14045, 100), Rat(4062499, 100000)) }] :
               /\ lon = [k \in 1..n |-> pts[k].lon]
               /\ lat = [k \in 1..n |-> pts[k].lat]
    /\ is_iterable = TRUE
    /\ param_df = TableA
    /\ pc = "ready"
    /\ return_to_original = Unbound
    /\ i = 0
    /\ previous_mesh_code = Unbound
    /\ delta = Unbound
    /\ lst = Unbound
    /\ result = Unbound
    /\ raised = None
    /\ calc_calls = <<>>
    /\ probe = None
    /\ altitude = None
    /\ datetime_ = None
    /\ files = <<>>
    /\ disk = <<>>
    /\ tried = <<>>
    /\ opened = <<>>
    /\ retries = 0 /\ response = None /\ idxs = <<>> /\ tasks = <<>>
    /\ results = <<>> /\ requests = 0 /\ failures = 0

SpecBoundary ==
    /\ InitBoundary
    /\ [][\/ \E rto \in BOOLEAN : Correction2dBegin(rto)
          \/ Correction2dIter
          \/ Correction2dReturn]_vars

\* the batch position whose delta is in force at step k
Owner(k) == CHOOSE c \in CallsUpTo(k) : \A e \in CallsUpTo(k) : e <= c

\* the four corner mesh codes mesh_design gives batch point k
CornerCodes(k) ==
    With(mesh_design(lon[k], lat[k]), LAMBDA corners :
        IF corners = MeshDesignFalse THEN [unavailable |-> TRUE]
        ELSE [ lower_left |-> corners.lower_left.standard_mesh_code,
               lower_right |-> corners.lower_right.standard_mesh_code,
               upper_left |-> corners.upper_left.standard_mesh_code,
               upper_right |-> corners.upper_right.standard_mesh_code ])

\* C29: whenever correction_2d reuses a delta for batch point k (its
\* standard mesh code equals that of point k-1), the point for which that
\* delta was computed has the same four corner mesh codes under mesh_design
\* as point k: a standard mesh lies inside one 225" x 150" cell.
C29_ReuseWithinCell ==
    (is_iterable /\ pc \in {"loop", "returned"}) =>
        \A k \in 2..Len(lst) :
            (CodeAt(k) = CodeAt(k - 1) /\ k \notin CallsUpTo(k)) =>
                CornerCodes(Owner(k)) = CornerCodes(k)

=============================================================================
